---- MODULE Spec2Model ----
(***************************************************************************)
(* A model of the document export pipeline of invoice-pro                   *)
(* (src/src/lib/pdf-utils.ts): the download ledger (PDFAnalytics), the      *)
(* paginator (PDFGenerator.createPDFFromCanvas), the single-document        *)
(* generation entry points (PDFGenerator.generateFrom...) and the bulk      *)
(* invoice loop (BulkPDFGenerator.processBulkInvoices).                     *)
(*                                                                          *)
(* Each component has its own specification over the shared variables:      *)
(* SpecLedger, SpecPaginate, SpecGen and SpecBulk.  A component that a      *)
(* specification does not exercise stays in its initial state.              *)
(*                                                                          *)
(* Lengths are whole units: the code computes them in floating-point        *)
(* millimetres, the model in exact integers.                                *)
(***************************************************************************)
EXTENDS Integers, Sequences, FiniteSets, TLC

VARIABLES
    \* ---- PDFAnalytics (the download ledger)
    downloadHistory,  \* PDFAnalytics.downloadHistory
    recorded,         \* ghost: every entry recorded since the last clearHistory
    now,              \* the wall clock read by `new Date()`
    varied,           \* ghost: recordDownload calls so far that were varied calls
    stats,            \* <<>> or <<s>>: what the last call returned, if it was getStatistics
    \* ---- PDFGenerator.createPDFFromCanvas
    pagePc,           \* "off", "start", "loop" or "done"
    imgHeight,        \* the scaled image height H
    pageHeight,       \* the page height P
    heightLeft,       \* local heightLeft
    position,         \* local position
    pages,            \* one entry per page of the document: the image's vertical offset on it
    \* ---- PDFGenerator.generateFromElement / Selector / Ref / HTML
    genPc,            \* "idle", or "rasterizing" while html2canvas is awaited
    genCall,          \* <<>> or <<c>>: the generation that awaits html2canvas
    body,             \* the wrappers the pipeline has attached to document.body
    nextNode,         \* the nodes created so far (document.createElement, cloneNode)
    rasterCount,      \* the html2canvas calls so far
    rasters,          \* ghost: per html2canvas call, who made it and the options it passed
    saved,            \* the file names passed to pdf.save, in order
    result,           \* <<>> or <<r>>: what the last finished call resolved to
    escaped,          \* <<>> or <<e>>: the exception the last finished call rejected with
    calls,            \* ghost: entry-point calls so far
    completions,      \* ghost: generations that ended in success
    last,             \* ghost: <<>> or the last entry-point call, its input and the state before it
    \* ---- BulkPDFGenerator.processBulkInvoices
    bulkPc,           \* "off", "loop" or "done"
    invoices,         \* the argument `invoices`
    onProgress,       \* options.onProgress: "none", "ok" or "throws"
    bulkI,            \* the loop index i, counted from 1
    results,          \* the local `results`
    bulkLog,          \* ghost: per loop turn, the item's index and how its generation ended
    \* ---- BatchPDFGenerator.generateBatchPDFs
    batchPc,          \* "off", "loop" or "done"
    elements,         \* the argument `elements`
    batchI,           \* the position of the for-of loop, counted from 1
    batchResults,     \* the local `results`
    batchResult,      \* <<>> or <<r>>: what generateBatchPDFs resolved to
    \* ---- BulkPDFGenerator.generateCombinedPDF
    combPc,           \* "off", "start", "item", "rasterizing" or "done"
    documents,        \* the argument `documents`
    combOptions,      \* the argument `options`: its filename and whether it has a coverPage
    combI,            \* the loop index i, counted from 1
    combPages,        \* the pages of `pdf`, each the sequence of what was drawn on it
    combResult,       \* <<>> or <<r>>: what generateCombinedPDF resolved to
    \* ---- BatchPDFGenerator.generateTablePDF
    tablePc,          \* "off", "start", "rows" or "done"
    tableData,        \* the argument `tableData`
    headers,          \* the argument `headers`
    tableOptions,     \* the argument `options`: filename, title, orientation
    tableI,           \* the position of `tableData.forEach`, counted from 1
    yPosition,        \* the local yPosition
    tablePages,       \* the pages of `pdf`, each the sequence of texts drawn on it
    tableResult,      \* <<>> or <<r>>: what the last invocation resolved to
    tableRun,         \* ghost: the invocations started with these arguments
    prevPages,        \* ghost: <<>> or the pages of the invocation before the last
    \* ---- the color normalizer (convertToRGB, convertOklchToRgb, preprocessClonedDocument)
    colorPc,          \* "off", "start" or "done"
    colorIn,          \* the color value that reaches the normalizer
    colorPath,        \* which code rewrote it: "resolved", "inline" or "stylesheet"
    colorOut,         \* the text it was rewritten to
    probes,           \* the temporary elements convertToRGB appended to document.body
    \* ---- the style sanitizer (preparePDFStyles, preprocessClonedDocument)
    sanPc,            \* "off", "walk" or "done"
    sanFn,            \* "preparePDFStyles" or "preprocessClonedDocument"
    faults,           \* per node of the subtree, the step that throws for it, or "none"
    sanI,             \* the position of the forEach, counted from 1
    processed,        \* the nodes whose turn of the forEach ran to its end
    sanThrown,        \* whether the function was left by an exception
    \* ---- PDFDownloadButton
    btnPc,            \* "off" or "mounted"
    props,            \* the button's props: the ref's element, disabled, the three callbacks
    isGenerating,     \* the React state isGenerating
    rendered,         \* the isGenerating the last render saw: its handleDownload holds it
    flights,          \* per handleDownload invocation: where it is and the callbacks it made
    btnOptions,       \* the prop `options`: its filename
    \* ---- preparePDFStyles on one node of the clone
    stylePc,          \* "off", "node", "strip" or "done"
    inline,           \* the node's inline declarations (element.style), in order
    sheetPosition,    \* the position the stylesheets give the node
    computedColor,    \* the computed color of the node
    stripI,           \* the index i of the loop of removeProblematicCSSProperties
    wasFixed,         \* ghost: the node was fixed-positioned when the walk reached it
    \* ---- PDFPrintPreview
    previewPc,        \* "off", "open" (the dialog shows) or "generating"
    contentRef,       \* contentRef.current
    isLoading,        \* the React state isLoading
    previewUrl,       \* the React state previewUrl
    previews,         \* ghost: the generatePreview invocations so far
    lastPreview,      \* ghost: the result the last generation returned
    \* ---- the transactions routes
    txPc,             \* "off" or "serving"
    transactions,     \* the Transaction collection: _id -> stored document
    invoiceDocs,      \* the Invoice collection: _id -> stored document
    totalSpent,       \* the customer's totalSpent
    sentStatus,       \* ghost: per invoice the paymentStatus of the last update sent for it
    requests          \* ghost: the requests served so far

ledgerVars == <<downloadHistory, recorded, now, varied, stats>>
pageVars == <<pagePc, imgHeight, pageHeight, heightLeft, position, pages>>
genVars == <<genPc, genCall, body, nextNode, rasterCount, rasters, saved, result,
             escaped, calls, completions, last>>
bulkVars == <<bulkPc, invoices, onProgress, bulkI, results, bulkLog>>
batchVars == <<batchPc, elements, batchI, batchResults, batchResult>>
combVars == <<combPc, documents, combOptions, combI, combPages, combResult>>
tableVars == <<tablePc, tableData, headers, tableOptions, tableI, yPosition, tablePages,
               tableResult, tableRun, prevPages>>
colorVars == <<colorPc, colorIn, colorPath, colorOut, probes>>
sanVars == <<sanPc, sanFn, faults, sanI, processed, sanThrown>>
btnVars == <<btnPc, props, isGenerating, rendered, flights, btnOptions>>
styleVars == <<stylePc, inline, sheetPosition, computedColor, stripI, wasFixed>>
previewVars == <<previewPc, contentRef, isLoading, previewUrl, previews, lastPreview>>
txVars == <<txPc, transactions, invoiceDocs, totalSpent, sentStatus, requests>>
vars == <<ledgerVars, pageVars, genVars, bulkVars, batchVars, combVars, tableVars,
          colorVars, sanVars, btnVars, styleVars, previewVars, txVars>>

Min(a, b) == IF a < b THEN a ELSE b

(***************************************************************************)
(* Array.prototype.slice(-n): the last n elements (all of them when the     *)
(* array is shorter).                                                       *)
(***************************************************************************)
SliceLast(s, n) ==
    IF Len(s) > n THEN SubSeq(s, Len(s) - n + 1, Len(s)) ELSE s

(***************************************************************************)
(*                      PDFAnalytics: the download ledger                   *)
(***************************************************************************)

\* `if (this.downloadHistory.length > 100)` / `slice(-100)`
MaxHistory == 100
\* `.slice(-10)` in getStatistics
RecentCount == 10

\* Bounds of the exploration: recordDownload calls between two clearHistory
\* calls, and the length of the one burst of back-to-back calls among them
\* that are free in their arguments and in the clock's behaviour.
MaxRecords == 101
MaxVaried == 2

\* The arguments of a recordDownload call and the clock's advance since the
\* previous one.  The default call leaves `type` to its default parameter
\* and happens a tick later.  A varied call names another type and size and
\* either falls into the same millisecond as the entry before it or sees
\* the wall clock set back.
DefaultCall == [filename |-> "document.pdf", size |-> 1, type |-> "document", tick |-> 1]
VariedCalls ==
    { [filename |-> "invoice.pdf", size |-> 2, type |-> "invoice", tick |-> 0],
      [filename |-> "report.pdf", size |-> 3, type |-> "report", tick |-> -1] }

LedgerInit ==
    /\ downloadHistory = <<>>
    /\ recorded = <<>>
    /\ now = 0
    /\ varied = 0
    /\ stats = <<>>

\* A mutant of TrimHistory: the trim is forgotten.
TrimHistoryNever(h) == h

\* A mutant of TrimHistory: slice(0, 100) keeps the oldest entries.
TrimHistoryOldest(h) ==
    IF Len(h) > MaxHistory THEN SubSeq(h, 1, MaxHistory) ELSE h

\* "Keep only last 100 entries"
TrimHistory(h) ==
    IF Len(h) > MaxHistory THEN SliceLast(h, MaxHistory) ELSE h

\* recordDownload(filename, size, type) at clock reading t
PushDownload(h, filename, t, size, type) ==
    TrimHistory(Append(h, [filename |-> filename, timestamp |-> t,
                           size |-> size, type |-> type]))

RecordWith(c) ==
    /\ Len(recorded) < MaxRecords
    /\ now' = now + c.tick
    /\ downloadHistory' = PushDownload(downloadHistory, c.filename, now', c.size, c.type)
    /\ recorded' = Append(recorded, [filename |-> c.filename, timestamp |-> now',
                                     size |-> c.size, type |-> c.type])
    /\ stats' = <<>>

\* The burst of varied calls has begun and no default call has ended it.
InBurst ==
    /\ recorded # <<>>
    /\ recorded[Len(recorded)].filename # DefaultCall.filename

RecordDownload ==
    /\ \/ RecordWith(DefaultCall) /\ UNCHANGED varied
       \/ \E c \in VariedCalls :
              /\ varied = 0 \/ (varied < MaxVaried /\ InBurst)
              /\ varied' = varied + 1
              /\ RecordWith(c)
    /\ UNCHANGED <<pageVars, genVars, bulkVars, batchVars, combVars, tableVars, colorVars, sanVars, btnVars,
                   styleVars, previewVars, txVars>>

\* reduce((sum, entry) => sum + entry.size, 0) over the first n entries
RECURSIVE SumSizeTo(_, _)
SumSizeTo(h, n) == IF n = 0 THEN 0 ELSE SumSizeTo(h, n - 1) + h[n].size

SumSize(h) == SumSizeTo(h, Len(h))

\* reduce((acc, entry) => { acc[entry.type] = (acc[entry.type] || 0) + 1 })
TypeBreakdown(h) ==
    [t \in {h[i].type : i \in DOMAIN h} |->
        Cardinality({i \in DOMAIN h : h[i].type = t})]

\* A mutant of Before: the comparator's operands are swapped (a - b).
BeforeAscending(a, b) == a.timestamp < b.timestamp

\* The comparator (a, b) => b.timestamp - a.timestamp is negative, so that a
\* sorts before b, exactly when a is the newer one.
Before(a, b) == a.timestamp > b.timestamp

\* Array.prototype.sort is stable: e is inserted behind every element that
\* does not sort after it.
RECURSIVE InsertSorted(_, _)
InsertSorted(sorted, e) ==
    IF sorted = <<>> THEN <<e>>
    ELSE IF Before(e, sorted[1]) THEN <<e>> \o sorted
    ELSE <<sorted[1]>> \o InsertSorted(Tail(sorted), e)

RECURSIVE SortNewestFirst(_)
SortNewestFirst(s) ==
    IF s = <<>> THEN <<>>
    ELSE InsertSorted(SortNewestFirst(SubSeq(s, 1, Len(s) - 1)), s[Len(s)])

\* getStatistics(); averageSize is the fraction <<numerator, denominator>>
GetStatistics(h) ==
    LET total == Len(h)
        totalSize == SumSize(h)
    IN [totalDownloads |-> total,
        totalSize |-> totalSize,
        averageSize |-> IF total > 0 THEN <<totalSize, total>> ELSE <<0, 1>>,
        typeBreakdown |-> TypeBreakdown(h),
        recentDownloads |-> SortNewestFirst(SliceLast(h, RecentCount))]

\* A mutant of BufferAfterSort: the last ten entries are sorted where they
\* are (sort without the slice's copy).
BufferSortedInPlace(h) ==
    SubSeq(h, 1, Len(h) - Len(SliceLast(h, RecentCount)))
        \o SortNewestFirst(SliceLast(h, RecentCount))

\* The buffer after `this.downloadHistory.slice(-10).sort(...)`: sort works
\* in place, on the copy that slice has made.
BufferAfterSort(h) == h

GetStatisticsCall ==
    /\ stats' = <<GetStatistics(downloadHistory)>>
    /\ downloadHistory' = BufferAfterSort(downloadHistory)
    /\ UNCHANGED <<recorded, now, varied>>
    /\ UNCHANGED <<pageVars, genVars, bulkVars, batchVars, combVars, tableVars, colorVars, sanVars, btnVars,
                   styleVars, previewVars, txVars>>

\* clearHistory(); the ghosts start over with the buffer
ClearHistory ==
    /\ recorded # <<>>
    /\ downloadHistory' = <<>>
    /\ recorded' = <<>>
    /\ now' = 0
    /\ varied' = 0
    /\ stats' = <<>>
    /\ UNCHANGED <<pageVars, genVars, bulkVars, batchVars, combVars, tableVars, colorVars, sanVars, btnVars,
                   styleVars, previewVars, txVars>>

(***************************************************************************)
(*                 PDFGenerator.createPDFFromCanvas: the paginator          *)
(***************************************************************************)

\* Bounds of the exploration: the scaled image height and the page height.
MaxImgHeight == 12
MaxPageHeight == 5

PageIdle ==
    /\ pagePc = "off"
    /\ imgHeight = 1
    /\ pageHeight = 1
    /\ heightLeft = 0
    /\ position = 0
    /\ pages = <<>>

\* createPDFFromCanvas is entered with a canvas whose scaled height is
\* imgHeight and a page format whose height is pageHeight; the new jsPDF
\* document has one page, still empty.
PageInit ==
    /\ pagePc = "start"
    /\ imgHeight \in 1..MaxImgHeight
    /\ pageHeight \in 1..MaxPageHeight
    /\ heightLeft = imgHeight
    /\ position = 0
    /\ pages = <<>>

\* A mutant of NextPosition: the image is moved up by what is still left
\* instead of by what has been shown.
NextPositionByRest(left, height) == 0 - left

\* `position = heightLeft - imgHeight`
NextPosition(left, height) == left - height

\* "Add first page": addImage at position 0 on the page the document
\* starts with, then `heightLeft -= pageHeight`.
AddFirstPage ==
    /\ pagePc = "start"
    /\ pages' = Append(pages, position)
    /\ heightLeft' = heightLeft - pageHeight
    /\ pagePc' = "loop"
    /\ UNCHANGED <<imgHeight, pageHeight, position>>
    /\ UNCHANGED <<ledgerVars, genVars, bulkVars, batchVars, combVars, tableVars, colorVars, sanVars, btnVars,
                   styleVars, previewVars, txVars>>

\* One turn of `while (heightLeft >= 0)`: addPage, addImage at the new
\* position, `heightLeft -= pageHeight`.
AddNextPage ==
    /\ pagePc = "loop"
    /\ heightLeft >= 0
    /\ position' = NextPosition(heightLeft, imgHeight)
    /\ pages' = Append(pages, position')
    /\ heightLeft' = heightLeft - pageHeight
    /\ UNCHANGED <<pagePc, imgHeight, pageHeight>>
    /\ UNCHANGED <<ledgerVars, genVars, bulkVars, batchVars, combVars, tableVars, colorVars, sanVars, btnVars,
                   styleVars, previewVars, txVars>>

\* The loop is left and the document returned.
ReturnPDF ==
    /\ pagePc = "loop"
    /\ heightLeft < 0
    /\ pagePc' = "done"
    /\ UNCHANGED <<imgHeight, pageHeight, heightLeft, position, pages>>
    /\ UNCHANGED <<ledgerVars, genVars, bulkVars, batchVars, combVars, tableVars, colorVars, sanVars, btnVars,
                   styleVars, previewVars, txVars>>

PageNext == AddFirstPage \/ AddNextPage \/ ReturnPDF

(***************************************************************************)
(*     PDFGenerator.generateFromElement / Selector / Ref / HTML             *)
(***************************************************************************)

\* Bound of the exploration: entry-point calls in a run.
MaxCalls == 3

Null == "<null>"
Undefined == "<undefined>"
\* An option the caller's options object does not carry.
Omitted == "<omitted>"

\* The elements of the page, the selectors and the file names callers pass.
Elements == {"invoiceCard"}
Selectors == {"#invoice", "#missing", ""}
FilenameOptions == {Omitted, "invoice.pdf", Undefined}
\* How a step that can throw ends.
Outcomes == {"ok", "throws"}

\* DEFAULT_OPTIONS.filename
DefaultFilename == "document.pdf"

\* `{ ...this.DEFAULT_OPTIONS, ...options }`, the filename of it: a key the
\* options object carries overrides the default, also when its value is
\* undefined.
MergeFilename(opt) == IF opt = Omitted THEN DefaultFilename ELSE opt

\* document.querySelector(selector): the element, null when nothing matches,
\* and a SyntaxError for a string that is no selector (here the empty one).
QuerySelector(sel) ==
    IF sel = "" THEN [throws |-> TRUE, element |-> Null]
    ELSE IF sel = "#invoice" THEN [throws |-> FALSE, element |-> "invoiceCard"]
    ELSE [throws |-> FALSE, element |-> Null]

\* The messages of the failed results.
RefNullMessage == "Ref element is null or undefined"
SelectorMessage(sel) == "Element with selector \"" \o sel \o "\" not found"
NullDerefMessage == "Cannot read properties of null (reading 'cloneNode')"
SanitizeMessage == "<message of the error thrown while cloning or sanitizing>"
RasterMessage == "<message of the error html2canvas rejected with>"
AssemblyMessage == "<message of the error thrown while assembling or saving>"

\* What the html2canvas call of an entry point passes for the capture: the
\* onclone hook that runs preprocessClonedDocument on html2canvas's own clone,
\* and the ignoreElements filter for script nodes and nodes flagged
\* data-html2canvas-ignore.  Only generateFromElement passes them.
RasterOptions(fn) ==
    [fn |-> fn,
     onclone |-> fn = "generateFromElement",
     ignoreElements |-> fn = "generateFromElement"]

\* `{ success: false, error }`
Failure(msg) ==
    [success |-> FALSE, error |-> msg, filename |-> Undefined, blob |-> Undefined]

\* `{ success: true, filename }` and, from generateFromHTML, `blob`
Success(filename, blob) ==
    [success |-> TRUE, error |-> Undefined, filename |-> filename, blob |-> blob]

GenIdle ==
    /\ genPc = "idle"
    /\ genCall = <<>>
    /\ body = {}
    /\ nextNode = 0
    /\ rasterCount = 0
    /\ rasters = <<>>
    /\ saved = <<>>
    /\ result = <<>>
    /\ escaped = <<>>
    /\ calls = 0
    /\ completions = 0
    /\ last = <<>>

\* A mutant of IsMissing: the guard is lost.
IsMissingNever(x) == FALSE

\* `if (!element)`, `if (!ref.current)`
IsMissing(x) == x = Null

\* The try block of generateFromElement (fn = "generateFromElement") or of
\* generateFromHTML up to its `await html2canvas(...)`: the clone (or the
\* parsed markup) goes into a new wrapper, the wrapper is sanitized and
\* appended to document.body, and the rasterization starts.  An exception
\* on the way is caught and makes the failed result.  `created` is the
\* number of nodes the block creates.
PipelineStart(fn, caller, el, filename, created, prep) ==
    IF el = Null
    THEN /\ result' = <<Failure(NullDerefMessage)>>
         /\ escaped' = <<>>
         /\ UNCHANGED <<genPc, genCall, body, nextNode, rasterCount, rasters, saved,
                        completions>>
    ELSE IF prep = "throws"
    THEN /\ result' = <<Failure(SanitizeMessage)>>
         /\ escaped' = <<>>
         /\ nextNode' = nextNode + created
         /\ UNCHANGED <<genPc, genCall, body, rasterCount, rasters, saved, completions>>
    ELSE /\ nextNode' = nextNode + created
         /\ body' = body \cup {nextNode'}
         /\ rasterCount' = rasterCount + 1
         /\ rasters' = Append(rasters, RasterOptions(fn))
         /\ genPc' = "rasterizing"
         /\ genCall' = <<[fn |-> fn, caller |-> caller, filename |-> filename,
                          wrapper |-> nextNode']>>
         /\ result' = <<>>
         /\ escaped' = <<>>
         /\ UNCHANGED <<saved, completions>>

\* The rest of the try block, from the moment html2canvas settles: when it
\* rejects, the catch block returns the failed result; otherwise the wrapper
\* is removed, the document assembled (createPDFFromCanvas, and pdf.output
\* in generateFromHTML) and saved, which may throw into the catch block too.
PipelineSettle(raster, assembly) ==
    LET c == genCall[1]
    IN /\ genPc' = "idle"
       /\ genCall' = <<>>
       /\ escaped' = <<>>
       /\ UNCHANGED <<nextNode, rasterCount, rasters>>
       /\ IF raster = "throws"
          THEN /\ result' = <<Failure(RasterMessage)>>
               /\ UNCHANGED <<body, saved, completions>>
          ELSE /\ body' = body \ {c.wrapper}
               /\ IF assembly = "throws"
                  THEN /\ result' = <<Failure(AssemblyMessage)>>
                       /\ UNCHANGED <<saved, completions>>
                  ELSE /\ saved' = Append(saved, c.filename)
                       /\ result' = <<Success(c.filename,
                                         IF c.fn = "generateFromHTML"
                                         THEN "blob" ELSE Undefined)>>
                       /\ completions' = completions + 1

\* ghost: the call and the state it was made in
CallRecord(fn, input) ==
    <<[fn |-> fn, input |-> input, body |-> body, nextNode |-> nextNode,
       rasterCount |-> rasterCount, saved |-> saved]>>

\* generateFromElement(element, options)
GenerateFromElement ==
    /\ genPc = "idle"
    /\ calls < MaxCalls
    /\ \E el \in Elements, f \in FilenameOptions, prep \in Outcomes :
           /\ PipelineStart("generateFromElement", "top", el, MergeFilename(f), 2, prep)
           /\ last' = CallRecord("generateFromElement", el)
    /\ calls' = calls + 1
    /\ UNCHANGED <<ledgerVars, pageVars, bulkVars, batchVars, combVars, tableVars, colorVars, sanVars, btnVars,
                   styleVars, previewVars, txVars>>

\* generateFromSelector(selector, options)
GenerateFromSelector ==
    /\ genPc = "idle"
    /\ calls < MaxCalls
    /\ \E sel \in Selectors, f \in FilenameOptions, prep \in Outcomes :
           /\ last' = CallRecord("generateFromSelector", sel)
           /\ LET q == QuerySelector(sel)
              IN IF q.throws
                 THEN /\ escaped' = <<"SyntaxError">>
                      /\ result' = <<>>
                      /\ UNCHANGED <<genPc, genCall, body, nextNode, rasterCount,
                                     rasters, saved, completions>>
                 ELSE IF IsMissing(q.element)
                 THEN /\ result' = <<Failure(SelectorMessage(sel))>>
                      /\ escaped' = <<>>
                      /\ UNCHANGED <<genPc, genCall, body, nextNode, rasterCount,
                                     rasters, saved, completions>>
                 ELSE PipelineStart("generateFromElement", "top", q.element,
                                    MergeFilename(f), 2, prep)
    /\ calls' = calls + 1
    /\ UNCHANGED <<ledgerVars, pageVars, bulkVars, batchVars, combVars, tableVars, colorVars, sanVars, btnVars,
                   styleVars, previewVars, txVars>>

\* The body of generateFromRef(ref, options) with ref.current = current and
\* the merged file name `filename`, up to the await inside generateFromElement.
FromRef(caller, current, filename, prep) ==
    IF IsMissing(current)
    THEN /\ result' = <<Failure(RefNullMessage)>>
         /\ escaped' = <<>>
         /\ UNCHANGED <<genPc, genCall, body, nextNode, rasterCount, rasters, saved,
                        completions>>
    ELSE PipelineStart("generateFromElement", caller, current, filename, 2, prep)

\* generateFromRef(ref, options), ref.current an element or null
GenerateFromRef ==
    /\ genPc = "idle"
    /\ calls < MaxCalls
    /\ \E current \in Elements \cup {Null}, f \in FilenameOptions, prep \in Outcomes :
           /\ last' = CallRecord("generateFromRef", current)
           /\ FromRef("top", current, MergeFilename(f), prep)
    /\ calls' = calls + 1
    /\ UNCHANGED <<ledgerVars, pageVars, bulkVars, batchVars, combVars, tableVars, colorVars, sanVars, btnVars,
                   styleVars, previewVars, txVars>>

\* generateFromHTML(html, options)
GenerateFromHTML ==
    /\ genPc = "idle"
    /\ calls < MaxCalls
    /\ \E f \in FilenameOptions, prep \in Outcomes :
           /\ PipelineStart("generateFromHTML", "top", "<markup>", MergeFilename(f), 1, prep)
           /\ last' = CallRecord("generateFromHTML", "<markup>")
    /\ calls' = calls + 1
    /\ UNCHANGED <<ledgerVars, pageVars, bulkVars, batchVars, combVars, tableVars, colorVars, sanVars, btnVars,
                   styleVars, previewVars, txVars>>

\* html2canvas settles and the awaiting entry point runs to its return
RasterSettles ==
    /\ genPc = "rasterizing"
    /\ genCall[1].caller = "top"
    /\ \E raster \in Outcomes, assembly \in Outcomes : PipelineSettle(raster, assembly)
    /\ UNCHANGED <<calls, last>>
    /\ UNCHANGED <<ledgerVars, pageVars, bulkVars, batchVars, combVars, tableVars, colorVars, sanVars, btnVars,
                   styleVars, previewVars, txVars>>

GenNext ==
    \/ GenerateFromElement
    \/ GenerateFromSelector
    \/ GenerateFromRef
    \/ GenerateFromHTML
    \/ RasterSettles

(***************************************************************************)
(*                 BulkPDFGenerator.processBulkInvoices                     *)
(***************************************************************************)

\* Bound of the exploration: the length of the `invoices` argument.
MaxItems == 5

BulkIdle ==
    /\ bulkPc = "off"
    /\ invoices = <<>>
    /\ onProgress = "none"
    /\ bulkI = 1
    /\ results = [success |-> TRUE, processed |-> 0, failed |-> 0, errors |-> <<>>]
    /\ bulkLog = <<>>

\* The i-th item of the argument: its element may be missing.
Invoice(i, element) ==
    [id |-> "id-" \o ToString(i),
     element |-> element,
     invoiceNumber |-> "INV-" \o ToString(i),
     customerName |-> "Acme Corp"]

\* processBulkInvoices is entered: `results` is initialised, i = 0.
BulkInit ==
    /\ bulkPc = "loop"
    /\ \E n \in 0..MaxItems :
           \E els \in [1..n -> Elements \cup {Null}] :
               invoices = [i \in 1..n |-> Invoice(i, els[i])]
    /\ onProgress \in {"none", "ok", "throws"}
    /\ bulkI = 1
    /\ results = [success |-> TRUE, processed |-> 0, failed |-> 0, errors |-> <<>>]
    /\ bulkLog = <<>>

\* `customerName ? customerName.replace(/\s+/g, '_') : 'customer'`
CustomerPart(name) ==
    IF name = "" THEN "customer"
    ELSE IF name = "Acme Corp" THEN "Acme_Corp"
    ELSE name

\* InvoicePDFGenerator.generateInvoicePDF: the file name it passes on
InvoiceFilename(invoice) ==
    "invoice_" \o invoice.invoiceNumber \o "_" \o CustomerPart(invoice.customerName) \o ".pdf"

ProgressMessage == "<message of the error onProgress threw>"

\* A mutant of RecordFailure: the error is listed but the failure not counted.
RecordFailureUncounted(res, invoice, msg) ==
    [res EXCEPT !.errors = Append(@, [invoiceNumber |-> invoice.invoiceNumber,
                                      message |-> msg])]

\* `results.failed++; results.errors.push(`${invoice.invoiceNumber}: ${...}`)`
RecordFailure(res, invoice, msg) ==
    [res EXCEPT !.failed = @ + 1,
                !.errors = Append(@, [invoiceNumber |-> invoice.invoiceNumber,
                                      message |-> msg])]

\* `if (result.success) results.processed++ else ...`
Account(res, invoice, r) ==
    IF r.success
    THEN [res EXCEPT !.processed = @ + 1]
    ELSE RecordFailure(res, invoice, r.error)

\* One turn of the for loop up to the point where it awaits html2canvas, or
\* to its end when the item's generation ends without rasterizing: onProgress
\* is called, then generateInvoicePDF with `{ current: invoice.element }`.
BulkTurn ==
    /\ bulkPc = "loop"
    /\ genPc = "idle"
    /\ bulkI <= Len(invoices)
    /\ LET invoice == invoices[bulkI]
       IN IF onProgress = "throws"
          THEN /\ results' = RecordFailure(results, invoice, ProgressMessage)
               /\ bulkLog' = Append(bulkLog, [index |-> bulkI, generated |-> FALSE])
               /\ bulkI' = bulkI + 1
               /\ UNCHANGED genVars
          ELSE /\ \E prep \in Outcomes :
                      FromRef("bulk", invoice.element, InvoiceFilename(invoice), prep)
               /\ UNCHANGED <<calls, last>>
               /\ IF genPc' = "idle"
                  THEN /\ results' = Account(results, invoice, result'[1])
                       /\ bulkLog' = Append(bulkLog, [index |-> bulkI,
                                                      generated |-> result'[1].success])
                       /\ bulkI' = bulkI + 1
                  ELSE UNCHANGED <<results, bulkLog, bulkI>>
    /\ UNCHANGED <<bulkPc, invoices, onProgress>>
    /\ UNCHANGED <<ledgerVars, pageVars, batchVars, combVars, tableVars, colorVars, sanVars, btnVars,
                   styleVars, previewVars, txVars>>

\* html2canvas settles for the item in hand: generateFromElement runs to its
\* return and the loop turn to its end.
BulkRasterSettles ==
    /\ bulkPc = "loop"
    /\ genPc = "rasterizing"
    /\ genCall[1].caller = "bulk"
    /\ \E raster \in Outcomes, assembly \in Outcomes : PipelineSettle(raster, assembly)
    /\ results' = Account(results, invoices[bulkI], result'[1])
    /\ bulkLog' = Append(bulkLog, [index |-> bulkI, generated |-> result'[1].success])
    /\ bulkI' = bulkI + 1
    /\ UNCHANGED <<calls, last>>
    /\ UNCHANGED <<bulkPc, invoices, onProgress>>
    /\ UNCHANGED <<ledgerVars, pageVars, batchVars, combVars, tableVars, colorVars, sanVars, btnVars,
                   styleVars, previewVars, txVars>>

\* `results.success = results.failed === 0; return results`
BulkReturn ==
    /\ bulkPc = "loop"
    /\ genPc = "idle"
    /\ bulkI > Len(invoices)
    /\ results' = [results EXCEPT !.success = (results.failed = 0)]
    /\ bulkPc' = "done"
    /\ UNCHANGED <<invoices, onProgress, bulkI, bulkLog>>
    /\ UNCHANGED <<ledgerVars, pageVars, genVars, batchVars, combVars, tableVars, colorVars, sanVars, btnVars,
                   styleVars, previewVars, txVars>>

BulkNext == BulkTurn \/ BulkRasterSettles \/ BulkReturn

(***************************************************************************)
(*                  BatchPDFGenerator.generateBatchPDFs                     *)
(***************************************************************************)

\* Bound of the exploration: the length of the `elements` argument.
MaxBatch == 3

BatchIdle ==
    /\ batchPc = "off"
    /\ elements = <<>>
    /\ batchI = 1
    /\ batchResults = <<>>
    /\ batchResult = <<>>

\* The i-th item of the argument: `{ element, filename }`
BatchItem(i, element) ==
    [element |-> element, filename |-> "export-" \o ToString(i) \o ".pdf"]

\* generateBatchPDFs is entered: `results = []`.  The argument is an array
\* of items, some of which may lack their element.
BatchInit ==
    /\ batchPc = "loop"
    /\ \E n \in 0..MaxBatch :
           \E els \in [1..n -> Elements \cup {Null}] :
               elements = [i \in 1..n |-> BatchItem(i, els[i])]
    /\ batchI = 1
    /\ batchResults = <<>>
    /\ batchResult = <<>>

\* `results.filter(r => !r.success).length`
FailedCount(rs) == Cardinality({i \in DOMAIN rs : ~rs[i].success})

\* The zip name of the successful batch result
BatchFilename(n) == "batch_export_" \o ToString(n) \o "_files.zip"

BatchFailedMessage(failedCount, n) ==
    ToString(failedCount) \o " out of " \o ToString(n) \o " PDFs failed to generate"

\* The statements after the loop: the result of generateBatchPDFs
BatchOutcome(rs, n) ==
    LET failedCount == FailedCount(rs)
    IN IF failedCount = 0
       THEN Success(BatchFilename(n), Undefined)
       ELSE Failure(BatchFailedMessage(failedCount, n))

\* One turn of the for-of loop up to the point where generateFromElement
\* awaits html2canvas, or to its end when the item's generation ends without
\* rasterizing: `{ ...options, filename, title }` is passed on.
BatchTurn ==
    /\ batchPc = "loop"
    /\ genPc = "idle"
    /\ batchI <= Len(elements)
    /\ \E prep \in Outcomes :
           PipelineStart("generateFromElement", "batch", elements[batchI].element,
                         MergeFilename(elements[batchI].filename), 2, prep)
    /\ UNCHANGED <<calls, last>>
    /\ IF genPc' = "idle"
       THEN /\ batchResults' = Append(batchResults, result'[1])
            /\ batchI' = batchI + 1
       ELSE UNCHANGED <<batchResults, batchI>>
    /\ UNCHANGED <<batchPc, elements, batchResult>>
    /\ UNCHANGED <<ledgerVars, pageVars, bulkVars, combVars, tableVars, colorVars,
                   sanVars, btnVars,
                   styleVars, previewVars, txVars>>

\* html2canvas settles for the item in hand: generateFromElement runs to its
\* return and `results.push(result)` ends the loop turn.
BatchRasterSettles ==
    /\ batchPc = "loop"
    /\ genPc = "rasterizing"
    /\ genCall[1].caller = "batch"
    /\ \E raster \in Outcomes, assembly \in Outcomes : PipelineSettle(raster, assembly)
    /\ batchResults' = Append(batchResults, result'[1])
    /\ batchI' = batchI + 1
    /\ UNCHANGED <<calls, last>>
    /\ UNCHANGED <<batchPc, elements, batchResult>>
    /\ UNCHANGED <<ledgerVars, pageVars, bulkVars, combVars, tableVars, colorVars,
                   sanVars, btnVars,
                   styleVars, previewVars, txVars>>

\* The loop is over: the failures are counted and the result returned.
BatchReturn ==
    /\ batchPc = "loop"
    /\ genPc = "idle"
    /\ batchI > Len(elements)
    /\ batchResult' = <<BatchOutcome(batchResults, Len(elements))>>
    /\ batchPc' = "done"
    /\ UNCHANGED <<elements, batchI, batchResults>>
    /\ UNCHANGED <<ledgerVars, pageVars, genVars, bulkVars, combVars, tableVars,
                   colorVars, sanVars, btnVars,
                   styleVars, previewVars, txVars>>

BatchNext == BatchTurn \/ BatchRasterSettles \/ BatchReturn

(***************************************************************************)
(*                  BulkPDFGenerator.generateCombinedPDF                    *)
(***************************************************************************)

\* Bound of the exploration: the length of the `documents` argument.
MaxDocs == 2

\* The height of an a4 portrait page in mm (config.format, config.orientation
\* at their defaults), and the margins the code leaves for: 20 at the top,
\* 40 in all.
A4Height == 297
TopMargin == 20
Margins == 40

\* The scaled image heights of the documents: less than a page's band,
\* exactly one band, more than one.
DocHeights == {100, A4Height - Margins, 300}

CombIdle ==
    /\ combPc = "off"
    /\ documents = <<>>
    /\ combOptions = [filename |-> Omitted, coverPage |-> FALSE]
    /\ combI = 1
    /\ combPages = <<>>
    /\ combResult = <<>>

\* generateCombinedPDF is entered.
CombInit ==
    /\ combPc = "start"
    /\ \E n \in 0..MaxDocs :
           \E hs \in [1..n -> DocHeights] :
               documents = [i \in 1..n |-> [title |-> "Document " \o ToString(i),
                                              element |-> "invoiceCard",
                                              height |-> hs[i]]]
    /\ combOptions \in [filename : FilenameOptions, coverPage : BOOLEAN]
    /\ combI = 1
    /\ combPages = <<>>
    /\ combResult = <<>>

\* The `config` of generateCombinedPDF spreads the options over its own
\* defaults; the filename of it.
CombinedDefaultFilename == "combined_documents.pdf"
MergeCombinedFilename(opt) == IF opt = Omitted THEN CombinedDefaultFilename ELSE opt

\* pdf.addPage(): a new empty page, which becomes the current one
AddPage(pgs) == Append(pgs, <<>>)

\* pdf.text / pdf.addImage draw on the current page
Draw(pgs, op) == [pgs EXCEPT ![Len(pgs)] = Append(@, op)]

CoverText == [kind |-> "cover", doc |-> 0, position |-> 40]
TitleText(i) == [kind |-> "title", doc |-> i, position |-> 30]
Image(i, pos) == [kind |-> "image", doc |-> i, position |-> pos]

CombinedMessage == "<message of the error thrown in generateCombinedPDF>"

\* `new jsPDF(...)` makes a document of one empty page; with
\* options.coverPage the cover is written on it and a page added.
CombStart ==
    /\ combPc = "start"
    /\ combPages' = IF combOptions.coverPage
                    THEN AddPage(Draw(<< <<>> >>, CoverText))
                    ELSE << <<>> >>
    /\ combPc' = "item"
    /\ UNCHANGED <<documents, combOptions, combI, combResult>>
    /\ UNCHANGED <<ledgerVars, pageVars, genVars, bulkVars, batchVars, tableVars,
                   colorVars, sanVars, btnVars,
                   styleVars, previewVars, txVars>>

\* One turn of the for loop up to its await: the document's title is
\* written on the current page, a page added and html2canvas called on
\* doc.element itself.
CombItem ==
    /\ combPc = "item"
    /\ combI <= Len(documents)
    /\ combPages' = AddPage(Draw(combPages, TitleText(combI)))
    /\ rasterCount' = rasterCount + 1
    /\ rasters' = Append(rasters, RasterOptions("generateCombinedPDF"))
    /\ combPc' = "rasterizing"
    /\ UNCHANGED <<documents, combOptions, combI, combResult>>
    /\ UNCHANGED <<genPc, genCall, body, nextNode, saved, result, escaped, calls,
                   completions, last>>
    /\ UNCHANGED <<ledgerVars, pageVars, bulkVars, batchVars, tableVars, colorVars,
                   sanVars, btnVars,
                   styleVars, previewVars, txVars>>

\* The turns of `while (heightLeft >= 0)`: a page is added and the image
\* drawn on it at `heightLeft - imgHeight + 20`.
RECURSIVE CombSlices(_, _, _, _)
CombSlices(pgs, i, height, left) ==
    IF left >= 0
    THEN CombSlices(Draw(AddPage(pgs), Image(i, left - height + TopMargin)),
                    i, height, left - (A4Height - Margins))
    ELSE pgs

\* The loop turn with a page added after every document, the last included.
PlaceDocumentBreakAlways(pgs, i, height, n) ==
    LET first == Draw(pgs, Image(i, TopMargin))
        sliced == CombSlices(first, i, height, height - (A4Height - Margins))
    IN IF i <= n THEN AddPage(sliced) ELSE sliced

\* The rest of the loop turn once the canvas is there: the image is drawn
\* at position 20, then page by page, and a page is added before the next
\* document.
PlaceDocument(pgs, i, height, n) ==
    LET first == Draw(pgs, Image(i, TopMargin))
        sliced == CombSlices(first, i, height, height - (A4Height - Margins))
    IN IF i < n THEN AddPage(sliced) ELSE sliced

\* html2canvas settles: when it rejects, the catch block returns the failed
\* result; otherwise the loop turn runs to its end.
CombRasterSettles ==
    /\ combPc = "rasterizing"
    /\ \E raster \in Outcomes :
           IF raster = "throws"
           THEN /\ combResult' = <<Failure(CombinedMessage)>>
                /\ combPc' = "done"
                /\ UNCHANGED <<combPages, combI>>
           ELSE /\ combPages' = PlaceDocument(combPages, combI, documents[combI].height,
                                              Len(documents))
                /\ combI' = combI + 1
                /\ combPc' = "item"
                /\ UNCHANGED combResult
    /\ UNCHANGED <<documents, combOptions>>
    /\ UNCHANGED <<ledgerVars, pageVars, genVars, bulkVars, batchVars, tableVars,
                   colorVars, sanVars, btnVars,
                   styleVars, previewVars, txVars>>

\* After the loop: `pdf.save(config.filename)` and the successful result,
\* or the failed one when saving throws.
CombReturn ==
    /\ combPc = "item"
    /\ combI > Len(documents)
    /\ \E assembly \in Outcomes :
           IF assembly = "throws"
           THEN /\ combResult' = <<Failure(CombinedMessage)>>
                /\ UNCHANGED saved
           ELSE /\ saved' = Append(saved, MergeCombinedFilename(combOptions.filename))
                /\ combResult' = <<Success(MergeCombinedFilename(combOptions.filename),
                                           Undefined)>>
    /\ combPc' = "done"
    /\ UNCHANGED <<documents, combOptions, combI, combPages>>
    /\ UNCHANGED <<genPc, genCall, body, nextNode, rasterCount, rasters, result, escaped,
                   calls, completions, last>>
    /\ UNCHANGED <<ledgerVars, pageVars, bulkVars, batchVars, tableVars, colorVars,
                   sanVars, btnVars,
                   styleVars, previewVars, txVars>>

CombNext == CombStart \/ CombItem \/ CombRasterSettles \/ CombReturn

(***************************************************************************)
(*                  BatchPDFGenerator.generateTablePDF                      *)
(***************************************************************************)

\* Bounds of the exploration: the rows of the table, and the invocations
\* made with the same arguments.
MaxRows == 31
MaxRuns == 2

\* The numbers of the layout: the left margin and the title's and the first
\* page's top line, the column width, the cursor under a title, the gap
\* under the headers, the row height, and the cursor value past which a
\* page is added.
LeftMargin == 20
ColumnWidth == 40
TitledTop == 40
HeaderGap == 10
RowStep == 8
PageBreakAt == 280

TableHeaders == { <<"name">>, <<"name", "total">> }
TitleOptions == {Omitted, "Invoices Report", ""}
Orientations == {"portrait", "landscape"}

\* The i-th row object: every other row lacks its total.
TableRow(i) ==
    [name |-> "Customer " \o ToString(i),
     total |-> IF i % 2 = 0 THEN Undefined ELSE ToString(100 * i)]

TableIdle ==
    /\ tablePc = "off"
    /\ tableData = <<>>
    /\ headers = <<>>
    /\ tableOptions = [filename |-> Omitted, title |-> Omitted, orientation |-> "portrait"]
    /\ tableI = 1
    /\ yPosition = 0
    /\ tablePages = <<>>
    /\ tableResult = <<>>
    /\ tableRun = 0
    /\ prevPages = <<>>

\* The arguments of the generateTablePDF calls to come.
TableInit ==
    /\ tablePc = "start"
    /\ \E n \in 0..MaxRows : tableData = [i \in 1..n |-> TableRow(i)]
    /\ headers \in TableHeaders
    /\ tableOptions \in [filename : {Omitted, "invoices.pdf"}, title : TitleOptions,
                          orientation : Orientations]
    /\ tableI = 1
    /\ yPosition = 0
    /\ tablePages = <<>>
    /\ tableResult = <<>>
    /\ tableRun = 0
    /\ prevPages = <<>>

\* The height in mm of the pages `new jsPDF(orientation, 'mm', 'a4')` makes:
\* an a4 sheet is 210 x 297.
A4Width == 210
TablePageHeight(orientation) ==
    IF orientation = "landscape" THEN A4Width ELSE A4Height

\* DEFAULT_OPTIONS.title and the title of the merged config
DefaultTitle == "Document"
MergeTitle(opt) == IF opt = Omitted THEN DefaultTitle ELSE opt

\* `if (config.title)`
Truthy(text) == text # "" /\ text # Undefined

\* `String(row[header] || '')`
CellText(value) == IF Truthy(value) THEN value ELSE ""

Text(text, x, y) == [text |-> text, x |-> x, y |-> y]

\* A mutant of StartCursor: the header line at the top whether or not there
\* is a title.
StartCursorAtTop(title) == LeftMargin

\* A mutant of StartCursor: the cursor is kept from one invocation to the
\* next instead of being a local of each.
StartCursorCarried(title) ==
    IF tableRun = 0
    THEN IF Truthy(title) THEN TitledTop ELSE LeftMargin
    ELSE yPosition

\* `let yPosition = config.title ? 40 : 20`
StartCursor(title) == IF Truthy(title) THEN TitledTop ELSE LeftMargin

\* The texts of one line, from column j on: `pdf.text(t, xPosition,
\* yPosition); xPosition += 40`, xPosition starting at 20.
RECURSIVE DrawCells(_, _, _, _)
DrawCells(pgs, texts, j, y) ==
    IF j > Len(texts) THEN pgs
    ELSE DrawCells(Draw(pgs, Text(texts[j], LeftMargin + ColumnWidth * (j - 1), y)),
                   texts, j + 1, y)

\* The document after `new jsPDF(...)`, the title and the header line
TableHead(hdrs, title) ==
    LET titled == IF Truthy(title)
                  THEN Draw(<< <<>> >>, Text(title, LeftMargin, LeftMargin))
                  ELSE << <<>> >>
    IN DrawCells(titled, hdrs, 1, StartCursor(title))

TableMessage == "<message of the error thrown in generateTablePDF>"

\* generateTablePDF is entered and runs up to `tableData.forEach`: the
\* title, the headers in bold, `yPosition += 10`.
TableStart ==
    /\ tablePc \in {"start", "done"}
    /\ tableRun < MaxRuns
    /\ prevPages' = IF tableRun = 0 THEN <<>> ELSE <<tablePages>>
    /\ tableRun' = tableRun + 1
    /\ tablePages' = TableHead(headers, MergeTitle(tableOptions.title))
    /\ yPosition' = StartCursor(MergeTitle(tableOptions.title)) + HeaderGap
    /\ tableI' = 1
    /\ tableResult' = <<>>
    /\ tablePc' = "rows"
    /\ UNCHANGED <<tableData, headers, tableOptions>>
    /\ UNCHANGED <<ledgerVars, pageVars, genVars, bulkVars, batchVars, combVars,
                   colorVars, sanVars, btnVars,
                   styleVars, previewVars, txVars>>

\* One turn of `tableData.forEach(...)`: the row's cells at the cursor,
\* `yPosition += 8`, and a new page with the cursor at 20 when it has
\* passed 280.
TableRowTurn ==
    /\ tablePc = "rows"
    /\ tableI <= Len(tableData)
    /\ LET cells == [j \in 1..Len(headers) |-> CellText(tableData[tableI][headers[j]])]
           drawn == DrawCells(tablePages, cells, 1, yPosition)
       IN IF yPosition + RowStep > PageBreakAt
          THEN /\ tablePages' = AddPage(drawn)
               /\ yPosition' = LeftMargin
          ELSE /\ tablePages' = drawn
               /\ yPosition' = yPosition + RowStep
    /\ tableI' = tableI + 1
    /\ UNCHANGED <<tablePc, tableData, headers, tableOptions, tableResult, tableRun,
                   prevPages>>
    /\ UNCHANGED <<ledgerVars, pageVars, genVars, bulkVars, batchVars, combVars,
                   colorVars, sanVars, btnVars,
                   styleVars, previewVars, txVars>>

\* `pdf.save(config.filename)` and the successful result, or the failed one
\* when saving throws.
TableSave ==
    /\ tablePc = "rows"
    /\ tableI > Len(tableData)
    /\ \E assembly \in Outcomes :
           IF assembly = "throws"
           THEN /\ tableResult' = <<Failure(TableMessage)>>
                /\ UNCHANGED saved
           ELSE /\ tableResult' = <<Success(MergeFilename(tableOptions.filename),
                                            Undefined)>>
                /\ saved' = Append(saved, MergeFilename(tableOptions.filename))
    /\ tablePc' = "done"
    /\ UNCHANGED <<tableData, headers, tableOptions, tableI, yPosition, tablePages,
                   tableRun, prevPages>>
    /\ UNCHANGED <<genPc, genCall, body, nextNode, rasterCount, rasters, result, escaped,
                   calls, completions, last>>
    /\ UNCHANGED <<ledgerVars, pageVars, bulkVars, batchVars, combVars, colorVars,
                   sanVars, btnVars,
                   styleVars, previewVars, txVars>>

TableNext == TableStart \/ TableRowTurn \/ TableSave

(***************************************************************************)
(*   The color normalizer: convertToRGB, convertOklchToRgb and the text     *)
(*   rewriting of preprocessClonedDocument                                  *)
(***************************************************************************)

\* A color value `fn(first ...)`: the function's name, whether white space
\* follows the opening parenthesis, and the characters of its first
\* parameter.
ColorFunctions == {"oklch", "lch", "lab"}
FirstParameters ==
    { <<"0">>, <<"1">>, <<"0", ".", "5">>, <<"0", ".", "2", "5">>,
      <<"1", ".", "5">>, <<"-", "0", ".", "5">>, <<"5", "0", "%">>,
      <<"n", "o", "n", "e">> }

\* window.getComputedStyle(tempDiv).color: what the browser resolves a
\* color it was handed to, the empty string when it gives none.
ComputedColors == {"", "rgb(119, 119, 119)", "lab(50 20 30)"}

Digits == {"0", "1", "2", "3", "4", "5", "6", "7", "8", "9"}
DigitValue(c) ==
    CASE c = "0" -> 0 [] c = "1" -> 1 [] c = "2" -> 2 [] c = "3" -> 3 [] c = "4" -> 4
      [] c = "5" -> 5 [] c = "6" -> 6 [] c = "7" -> 7 [] c = "8" -> 8 [] c = "9" -> 9

\* The digits of s from index i on, read into num.
RECURSIVE ScanDigits(_, _, _, _)
ScanDigits(s, i, num, count) ==
    IF i <= Len(s) /\ s[i] \in Digits
    THEN ScanDigits(s, i + 1, num * 10 + DigitValue(s[i]), count + 1)
    ELSE [num |-> num, count |-> count, next |-> i]

RECURSIVE Pow10(_)
Pow10(n) == IF n = 0 THEN 1 ELSE 10 * Pow10(n - 1)

NaN == [nan |-> TRUE, num |-> 0, den |-> 1]

\* parseFloat(s): the longest prefix of s that is a decimal literal, as the
\* fraction num / den; NaN when there is none.
ParseFloat(s) ==
    LET signed == s # <<>> /\ s[1] \in {"-", "+"}
        int == ScanDigits(s, IF signed THEN 2 ELSE 1, 0, 0)
        dotted == int.next <= Len(s) /\ s[int.next] = "."
        frac == IF dotted THEN ScanDigits(s, int.next + 1, int.num, 0)
                ELSE [num |-> int.num, count |-> 0, next |-> int.next]
    IN IF int.count + frac.count = 0
       THEN NaN
       ELSE [nan |-> FALSE,
             num |-> IF signed /\ s[1] = "-" THEN 0 - frac.num ELSE frac.num,
             den |-> Pow10(frac.count)]

\* Math.round(num / den): the integer nearest to it, halves rounded up
MathRound(num, den) == (2 * num + den) \div (2 * den)

\* `rgb(${gray}, ${gray}, ${gray})`
Rgb(gray) ==
    "rgb(" \o ToString(gray) \o ", " \o ToString(gray) \o ", " \o ToString(gray) \o ")"

MidGray == "rgb(128, 128, 128)"

\* `Math.round(lightness * 255)` for a lightness that is a number
Gray(lightness) == MathRound(lightness.num * 255, lightness.den)

\* convertOklchToRgb(params): `params.trim().split(/\s+/)[0]` is the first
\* parameter whether or not white space leads.
ConvertOklchToRgb(value) ==
    LET lightness == ParseFloat(value.first)
    IN IF ~lightness.nan THEN Rgb(Gray(lightness)) ELSE MidGray

\* `match[1].split(/\s+/)[0]` in convertToRGB: the parameters are not
\* trimmed, so the first piece is empty when white space leads.
FirstPiece(value) == IF value.lead THEN <<>> ELSE value.first

\* convertToRGB(colorValue): the gray of the lightness for an oklch value
\* whose first piece is a number; otherwise the color the browser computes
\* for a temporary element, or '#000000' when that is empty.
ConvertToRGB(value, computed) ==
    IF value.fn = "oklch" /\ ~ParseFloat(FirstPiece(value)).nan
    THEN Rgb(Gray(ParseFloat(FirstPiece(value))))
    ELSE IF computed # "" THEN computed ELSE "#000000"

\* Whether convertToRGB goes on to its temporary element.
NeedsProbe(value) == ~(value.fn = "oklch" /\ ~ParseFloat(FirstPiece(value)).nan)

\* The three replace calls on inline and stylesheet text: oklch(...) by
\* convertOklchToRgb of its parameters, lch(...) and lab(...) by the fixed
\* gray.
ReplaceColorFunctions(value) ==
    IF value.fn = "oklch" THEN ConvertOklchToRgb(value) ELSE MidGray

\* `value.includes('oklch') || value.includes('lch') || value.includes('lab')`
\* for a text the normalizer or the browser has produced
NamesColorFunction(text) == text = "lab(50 20 30)"

\* The second look at an inline style after its text was rewritten: a
\* color, background-color or border-color that still names a perceptual
\* function is set to '#666666'.
RewriteAttribute(text) == IF NamesColorFunction(text) THEN "#666666" ELSE text

ColorIdle ==
    /\ colorPc = "off"
    /\ colorIn = [fn |-> "oklch", lead |-> FALSE, first |-> <<"0">>]
    /\ colorPath = "resolved"
    /\ colorOut = ""
    /\ probes = 0

\* A color value reaches the normalizer: as a node's resolved color (in the
\* browser's serialization, without leading white space), in a node's inline
\* style text, or in the text of a style element.
ColorInit ==
    /\ colorPc = "start"
    /\ colorIn \in [fn : ColorFunctions, lead : BOOLEAN, first : FirstParameters]
    /\ colorPath \in {"resolved", "inline", "stylesheet"}
    /\ colorPath \in {"resolved", "inline"} => ~colorIn.lead
    /\ colorOut = ""
    /\ probes = 0

\* fixColorProperties hands a resolved color that names a perceptual
\* function to convertToRGB and writes the outcome as the inline color.
FixColorProperty ==
    /\ colorPc = "start"
    /\ colorPath = "resolved"
    /\ \E computed \in ComputedColors :
           colorOut' = ConvertToRGB(colorIn, computed)
    /\ probes' = IF NeedsProbe(colorIn) THEN probes + 1 ELSE probes
    /\ colorPc' = "done"
    /\ UNCHANGED <<colorIn, colorPath>>
    /\ UNCHANGED <<ledgerVars, pageVars, genVars, bulkVars, batchVars, combVars,
                   tableVars, sanVars, btnVars,
                   styleVars, previewVars, txVars>>

\* preprocessClonedDocument rewrites the text of an inline style, and looks
\* at the style's color properties again, or the text of a style element.
RewriteText ==
    /\ colorPc = "start"
    /\ colorPath \in {"inline", "stylesheet"}
    /\ colorOut' = IF colorPath = "inline"
                   THEN RewriteAttribute(ReplaceColorFunctions(colorIn))
                   ELSE ReplaceColorFunctions(colorIn)
    /\ colorPc' = "done"
    /\ UNCHANGED <<colorIn, colorPath, probes>>
    /\ UNCHANGED <<ledgerVars, pageVars, genVars, bulkVars, batchVars, combVars,
                   tableVars, sanVars, btnVars,
                   styleVars, previewVars, txVars>>

ColorNext == FixColorProperty \/ RewriteText

(***************************************************************************)
(*     The style sanitizer: preparePDFStyles, preprocessClonedDocument      *)
(***************************************************************************)

\* Bound of the exploration: the nodes of the subtree.
MaxNodes == 3

\* The steps of a node's turn that can throw: in preparePDFStyles reading
\* the computed style, fixColorProperties and
\* removeProblematicCSSProperties; in preprocessClonedDocument the
\* rewriting of the inline style.
Steps(fn) ==
    IF fn = "preparePDFStyles"
    THEN {"getComputedStyle", "fixColorProperties", "removeProblematicCSSProperties"}
    ELSE {"rewriteInlineStyle"}

SanIdle ==
    /\ sanPc = "off"
    /\ sanFn = "preparePDFStyles"
    /\ faults = <<>>
    /\ sanI = 1
    /\ processed = {}
    /\ sanThrown = FALSE

\* The function is entered with `querySelectorAll('*')` of n nodes.
SanInit ==
    /\ sanPc = "walk"
    /\ sanFn \in {"preparePDFStyles", "preprocessClonedDocument"}
    /\ \E n \in 0..MaxNodes : faults \in [1..n -> Steps(sanFn) \cup {"none"}]
    /\ sanI = 1
    /\ processed = {}
    /\ sanThrown = FALSE

\* Where the exception of a step ends: fixColorProperties catches its own
\* and sets fallback colors; preprocessClonedDocument catches everything
\* around its whole body, which ends the walk; nothing in preparePDFStyles
\* catches the others, which leave the function.
Catches(fn, step) ==
    IF fn = "preprocessClonedDocument" THEN "function"
    ELSE IF step = "fixColorProperties" THEN "step"
    ELSE "nowhere"

\* One turn of `allElements.forEach(...)`
SanitizeNode ==
    /\ sanPc = "walk"
    /\ sanI <= Len(faults)
    /\ IF faults[sanI] = "none" \/ Catches(sanFn, faults[sanI]) = "step"
       THEN /\ processed' = processed \cup {sanI}
            /\ sanI' = sanI + 1
            /\ UNCHANGED <<sanPc, sanThrown>>
       ELSE /\ sanPc' = "done"
            /\ sanThrown' = (Catches(sanFn, faults[sanI]) = "nowhere")
            /\ UNCHANGED <<processed, sanI>>
    /\ UNCHANGED <<sanFn, faults>>
    /\ UNCHANGED <<ledgerVars, pageVars, genVars, bulkVars, batchVars, combVars,
                   tableVars, colorVars, btnVars,
                   styleVars, previewVars, txVars>>

\* The walk is over and the function returns.
SanitizeReturn ==
    /\ sanPc = "walk"
    /\ sanI > Len(faults)
    /\ sanPc' = "done"
    /\ UNCHANGED <<sanFn, faults, sanI, processed, sanThrown>>
    /\ UNCHANGED <<ledgerVars, pageVars, genVars, bulkVars, batchVars, combVars,
                   tableVars, colorVars, btnVars,
                   styleVars, previewVars, txVars>>

SanNext == SanitizeNode \/ SanitizeReturn

(***************************************************************************)
(*        preparePDFStyles and removeProblematicCSSProperties on a node     *)
(***************************************************************************)

\* Bound of the exploration: the inline declarations of the node.
MaxDeclarations == 3

\* Inline custom properties: the names `property.startsWith('--')` is true of
CustomProperties == {"--brand", "--accent"}

\* problematicProps
ProblematicProps == {"backdrop-filter", "filter", "clip-path", "mask", "mask-image"}

\* The property names a node's inline style is drawn from
PropertyNames == CustomProperties \cup ProblematicProps \cup {"color", "position"}

\* The values a declaration of the property is drawn from
PropertyValues(name) ==
    IF name = "position" THEN {"fixed", "relative"}
    ELSE IF name = "color" THEN {"oklch(0.5 0.2 240)"}
    ELSE {"set"}

\* The declarations a node's inline style is drawn from
Declarations ==
    UNION { [name : {name}, value : PropertyValues(name)] : name \in PropertyNames }

\* Whether the names of the declarations are pairwise different (a
\* CSSStyleDeclaration holds a property once)
DistinctNames(decls) ==
    \A i, j \in DOMAIN decls : decls[i].name = decls[j].name => i = j

\* style.getPropertyValue(name): "" when the property is not declared
GetPropertyValue(decls, name) ==
    IF \E i \in DOMAIN decls : decls[i].name = name
    THEN (CHOOSE d \in {decls[i] : i \in DOMAIN decls} : d.name = name).value
    ELSE ""

\* style.removeProperty(name)
RemoveProperty(decls, name) ==
    LET Keeps(d) == d.name # name IN SelectSeq(decls, Keeps)

\* style[name] = value: the declaration is replaced in place, or appended
SetProperty(decls, name, value) ==
    IF \E i \in DOMAIN decls : decls[i].name = name
    THEN [i \in DOMAIN decls |->
            IF decls[i].name = name THEN [name |-> name, value |-> value] ELSE decls[i]]
    ELSE Append(decls, [name |-> name, value |-> value])

\* The position the node is laid out with: the inline declaration wins
\* over the stylesheets.
ComputedPosition(decls, sheet) ==
    IF GetPropertyValue(decls, "position") # "" THEN GetPropertyValue(decls, "position")
    ELSE sheet

StyleIdle ==
    /\ stylePc = "off"
    /\ inline = <<>>
    /\ sheetPosition = "static"
    /\ computedColor = ""
    /\ stripI = 0
    /\ wasFixed = FALSE

\* The walk of preparePDFStyles reaches a node of the clone.
StyleInit ==
    /\ stylePc = "node"
    /\ \E n \in 0..MaxDeclarations : inline \in [1..n -> Declarations]
    /\ DistinctNames(inline)
    /\ sheetPosition \in {"static", "fixed"}
    /\ computedColor \in {"", "rgb(17, 24, 39)", "rgba(0, 0, 0, 0)"}
    /\ stripI = 0
    /\ wasFixed = (ComputedPosition(inline, sheetPosition) = "fixed")

\* fixColorProperties for `color`
FixColor(decls, computed) ==
    IF computed # "" /\ computed # "rgba(0, 0, 0, 0)" /\ computed # "transparent"
    THEN SetProperty(decls, "color", computed)
    ELSE decls

\* `if (style.color === 'rgba(0, 0, 0, 0)' || ...) style.color = '#000000'`
ShowText(decls, computed) ==
    IF computed \in {"rgba(0, 0, 0, 0)", "transparent"}
    THEN SetProperty(decls, "color", "#000000")
    ELSE decls

\* `if (htmlElement.style.position === 'fixed') style.position = 'absolute'`
Unfix(decls) ==
    IF GetPropertyValue(decls, "position") = "fixed"
    THEN SetProperty(decls, "position", "absolute")
    ELSE decls

\* The node's turn in preparePDFStyles up to the call of
\* removeProblematicCSSProperties, which starts its loop at style.length - 1.
PrepareNode ==
    /\ stylePc = "node"
    /\ inline' = Unfix(ShowText(FixColor(inline, computedColor), computedColor))
    /\ stripI' = Len(inline')
    /\ stylePc' = "strip"
    /\ UNCHANGED <<sheetPosition, computedColor, wasFixed>>
    /\ UNCHANGED <<ledgerVars, pageVars, genVars, bulkVars, batchVars, combVars,
                   tableVars, colorVars, sanVars, btnVars, previewVars, txVars>>

\* One turn of `for (let i = style.length - 1; i >= 0; i--)`
StripCustomProperty ==
    /\ stylePc = "strip"
    /\ stripI >= 1
    /\ inline' = IF inline[stripI].name \in CustomProperties
                 THEN RemoveProperty(inline, inline[stripI].name)
                 ELSE inline
    /\ stripI' = stripI - 1
    /\ UNCHANGED <<stylePc, sheetPosition, computedColor, wasFixed>>
    /\ UNCHANGED <<ledgerVars, pageVars, genVars, bulkVars, batchVars, combVars,
                   tableVars, colorVars, sanVars, btnVars, previewVars, txVars>>

\* problematicProps.forEach(...)
RemoveAll(decls, names) ==
    LET Keeps(d) == ~(d.name \in names /\ GetPropertyValue(decls, d.name) # "")
    IN SelectSeq(decls, Keeps)

\* The loop is over: the problematic properties are removed and the node's
\* turn ends.
StripProblematic ==
    /\ stylePc = "strip"
    /\ stripI = 0
    /\ inline' = RemoveAll(inline, ProblematicProps)
    /\ stylePc' = "done"
    /\ UNCHANGED <<sheetPosition, computedColor, stripI, wasFixed>>
    /\ UNCHANGED <<ledgerVars, pageVars, genVars, bulkVars, batchVars, combVars,
                   tableVars, colorVars, sanVars, btnVars, previewVars, txVars>>

StyleNext == PrepareNode \/ StripCustomProperty \/ StripProblematic

(***************************************************************************)
(*                             PDFPrintPreview                              *)
(***************************************************************************)

\* Bound of the exploration: the generatePreview invocations.
MaxPreviews == 4

PreviewIdle ==
    /\ previewPc = "off"
    /\ contentRef = Null
    /\ isLoading = FALSE
    /\ previewUrl = ""
    /\ previews = 0
    /\ lastPreview = <<>>

\* The dialog has been opened: useState(false), useState('') and the
\* content mounted or not.
PreviewInit ==
    /\ previewPc = "open"
    /\ contentRef \in Elements \cup {Null}
    /\ isLoading = FALSE
    /\ previewUrl = ""
    /\ previews = 0
    /\ lastPreview = <<>>

\* `${filename}_preview.pdf` with the default prop filename = "document"
PreviewFilename == "document_preview.pdf"

\* URL.createObjectURL(result.blob)
ObjectUrl == "blob:preview"

\* `if (result.success && result.blob) setPreviewUrl(url)`
ShowPreview(url, res) ==
    IF res.success /\ Truthy(res.blob) THEN ObjectUrl ELSE url

\* generatePreview up to the await inside generateFromElement; when the
\* generation ends before it (the clone or its sanitizing throws), through
\* its finally block.
GeneratePreview ==
    /\ previewPc = "open"
    /\ genPc = "idle"
    /\ previews < MaxPreviews
    /\ previews' = previews + 1
    /\ IF contentRef = Null
       THEN UNCHANGED <<genVars, previewPc, isLoading, previewUrl, lastPreview>>
       ELSE /\ \E prep \in Outcomes :
                  PipelineStart("generateFromElement", "preview", contentRef,
                                PreviewFilename, 2, prep)
            /\ UNCHANGED <<calls, last>>
            /\ IF genPc' = "idle"
               THEN /\ previewUrl' = ShowPreview(previewUrl, result'[1])
                    /\ lastPreview' = result'
                    /\ isLoading' = FALSE
                    /\ UNCHANGED previewPc
               ELSE /\ isLoading' = TRUE
                    /\ previewPc' = "generating"
                    /\ UNCHANGED <<previewUrl, lastPreview>>
    /\ UNCHANGED contentRef
    /\ UNCHANGED <<ledgerVars, pageVars, bulkVars, batchVars, combVars, tableVars,
                   colorVars, sanVars, btnVars, styleVars, txVars>>

\* html2canvas settles: generateFromElement runs to its return and
\* generatePreview to its end.
PreviewSettles ==
    /\ previewPc = "generating"
    /\ genPc = "rasterizing"
    /\ genCall[1].caller = "preview"
    /\ \E raster \in Outcomes, assembly \in Outcomes : PipelineSettle(raster, assembly)
    /\ previewUrl' = ShowPreview(previewUrl, result'[1])
    /\ lastPreview' = result'
    /\ isLoading' = FALSE
    /\ previewPc' = "open"
    /\ UNCHANGED <<calls, last>>
    /\ UNCHANGED <<contentRef, previews>>
    /\ UNCHANGED <<ledgerVars, pageVars, bulkVars, batchVars, combVars, tableVars,
                   colorVars, sanVars, btnVars, styleVars, txVars>>

PreviewNext == GeneratePreview \/ PreviewSettles

(***************************************************************************)
(*        server/routes/transactions.js: POST, PATCH and DELETE              *)
(***************************************************************************)

\* Bounds of the exploration: the requests served and the transactions
\* stored at a time.
MaxRequests == 3
MaxStored == 2

\* The invoice collection: the invoices of one customer and their totals.
InvoiceIds == {"INV-1"}
InvoiceTotal == 2

\* The amounts, types and statuses of the request bodies
Amounts == {1, 2}
TxTypes == {"Payment", "Refund"}
TxStatuses == {"Completed", "Pending"}

\* An invoice document as invoiceSchema stores it: the schema's paths (of
\* which the routes read customer and total); there is no path
\* paymentStatus and none lastPaymentDate.
InvoiceDoc(id) == [customer |-> "CUST-1", status |-> "Draft", total |-> InvoiceTotal]

TxIdle ==
    /\ txPc = "off"
    /\ transactions = <<>>
    /\ invoiceDocs = <<>>
    /\ totalSpent = 0
    /\ sentStatus = <<>>
    /\ requests = 0

\* The server is up: no transaction yet, the customer has spent nothing.
TxInit ==
    /\ txPc = "serving"
    /\ transactions = <<>>
    /\ invoiceDocs = [id \in InvoiceIds |-> InvoiceDoc(id)]
    /\ totalSpent = 0
    /\ sentStatus = [id \in InvoiceIds |-> "none"]
    /\ requests = 0

\* doc.path of a mongoose document: undefined for what is not a schema path
GetPath(doc, path) == IF path \in DOMAIN doc THEN doc[path] ELSE Undefined

\* Model.findByIdAndUpdate(id, update) under the schema's strict mode (the
\* default): the fields of the update that are not schema paths are dropped.
StrictUpdate(doc, update) ==
    [path \in DOMAIN doc |-> IF path \in DOMAIN update THEN update[path] ELSE doc[path]]

\* transactionSchema.status: `default: 'Completed'`
StoredStatus(status) == IF status = Omitted THEN "Completed" ELSE status

\* Transaction.find({ invoice, type: 'Payment', status: 'Completed' }), and
\* with `_id: { $ne: except }`: the _ids of the documents found
CompletedPayments(docs, invoice, except) ==
    {id \in DOMAIN docs : /\ id # except
                          /\ docs[id].invoice = invoice
                          /\ docs[id].type = "Payment"
                          /\ docs[id].status = "Completed"}

\* payments.reduce((sum, t) => sum + t.amount, 0)
RECURSIVE SumAmounts(_, _)
SumAmounts(docs, ids) ==
    IF ids = {} THEN 0
    ELSE LET id == CHOOSE id \in ids : TRUE
         IN docs[id].amount + SumAmounts(docs, ids \ {id})

\* `if (totalPaid >= totalInvoiceAmount) 'Paid' else if (totalPaid > 0)
\* 'Partial' else 'Unpaid'`
DerivePaymentStatus(totalPaid, total) ==
    IF totalPaid >= total THEN "Paid"
    ELSE IF totalPaid > 0 THEN "Partial"
    ELSE "Unpaid"

\* The `$inc` of the customer's totalSpent in POST: when the invoice becomes
\* Paid and the document read before does not say Paid.
SpentAfterCreate(spent, invoice, paymentStatus) ==
    IF paymentStatus = "Paid" /\ GetPath(invoice, "paymentStatus") # "Paid"
    THEN spent + invoice.total
    ELSE spent

\* The `$inc` in PATCH: up when it becomes Paid, down when it leaves Paid
SpentAfterUpdate(spent, invoice, paymentStatus) ==
    IF paymentStatus = "Paid" /\ GetPath(invoice, "paymentStatus") # "Paid"
    THEN spent + invoice.total
    ELSE IF paymentStatus # "Paid" /\ GetPath(invoice, "paymentStatus") = "Paid"
    THEN spent - invoice.total
    ELSE spent

\* The `$inc` in DELETE: down when it leaves Paid
SpentAfterDelete(spent, invoice, paymentStatus) ==
    IF paymentStatus # "Paid" /\ GetPath(invoice, "paymentStatus") = "Paid"
    THEN spent - invoice.total
    ELSE spent

\* Invoice.findByIdAndUpdate(invoice._id, { paymentStatus, lastPaymentDate })
SendStatus(invoice, paymentStatus) ==
    /\ invoiceDocs' = [invoiceDocs EXCEPT ![invoice] =
          StrictUpdate(@, [paymentStatus |-> paymentStatus, lastPaymentDate |-> "now"])]
    /\ sentStatus' = [sentStatus EXCEPT ![invoice] = paymentStatus]

\* The _id of a new document
FreshId == CHOOSE id \in 1..(MaxStored + 1) : id \notin DOMAIN transactions

\* `transactions` with the document stored under a new _id
Stored(doc) ==
    [id \in DOMAIN transactions \cup {FreshId} |->
        IF id = FreshId THEN doc ELSE transactions[id]]

\* POST /: the body names an existing customer; its invoice, when given,
\* exists.  For a Payment whose body says status Completed the invoice and
\* the customer are updated first; then the transaction is saved, which
\* fails when the document does not validate or its transactionId is taken.
PostTransaction ==
    /\ txPc = "serving"
    /\ requests < MaxRequests
    /\ \E invoice \in InvoiceIds \cup {Omitted}, type \in TxTypes,
          status \in TxStatuses \cup {Omitted}, amount \in Amounts, save \in Outcomes :
          /\ save = "ok" => Cardinality(DOMAIN transactions) < MaxStored
          /\ IF invoice # Omitted /\ type = "Payment" /\ status = "Completed"
             THEN LET totalPaid ==
                         SumAmounts(transactions, CompletedPayments(transactions, invoice, 0))
                            + amount
                      paymentStatus ==
                         DerivePaymentStatus(totalPaid, invoiceDocs[invoice].total)
                  IN /\ SendStatus(invoice, paymentStatus)
                     /\ totalSpent' = SpentAfterCreate(totalSpent, invoiceDocs[invoice],
                                                        paymentStatus)
             ELSE UNCHANGED <<invoiceDocs, sentStatus, totalSpent>>
          /\ transactions' =
                IF save = "ok"
                THEN Stored([invoice |-> invoice, type |-> type,
                             status |-> StoredStatus(status), amount |-> amount])
                ELSE transactions
    /\ requests' = requests + 1
    /\ UNCHANGED txPc
    /\ UNCHANGED <<ledgerVars, pageVars, genVars, bulkVars, batchVars, combVars,
                   tableVars, colorVars, sanVars, btnVars, styleVars, previewVars>>

\* The bodies of PATCH: one field of the transaction and its new value
PatchBodies ==
    [key : {"status"}, value : TxStatuses] \cup [key : {"type"}, value : TxTypes]
        \cup [key : {"amount"}, value : Amounts]

\* PATCH /:id: the fields of the body are assigned and the transaction
\* saved; when it is linked to an invoice and its status, amount or type
\* has changed, the invoice's status is derived from the stored payments.
PatchTransaction ==
    /\ txPc = "serving"
    /\ requests < MaxRequests
    /\ \E id \in DOMAIN transactions, patch \in PatchBodies :
          LET old == transactions[id]
              updated == [old EXCEPT ![patch.key] = patch.value]
              docs == [transactions EXCEPT ![id] = updated]
              invoice == updated.invoice
          IN /\ transactions' = docs
             /\ IF invoice # Omitted /\ updated # old
                THEN LET totalPaid == SumAmounts(docs, CompletedPayments(docs, invoice, 0))
                         paymentStatus ==
                            DerivePaymentStatus(totalPaid, invoiceDocs[invoice].total)
                     IN /\ SendStatus(invoice, paymentStatus)
                        /\ totalSpent' = SpentAfterUpdate(totalSpent, invoiceDocs[invoice],
                                                           paymentStatus)
                ELSE UNCHANGED <<invoiceDocs, sentStatus, totalSpent>>
    /\ requests' = requests + 1
    /\ UNCHANGED txPc
    /\ UNCHANGED <<ledgerVars, pageVars, genVars, bulkVars, batchVars, combVars,
                   tableVars, colorVars, sanVars, btnVars, styleVars, previewVars>>

\* DELETE /:id: for a Completed Payment linked to an invoice the invoice's
\* status is derived from the other stored payments; then the transaction
\* is deleted.
DeleteTransaction ==
    /\ txPc = "serving"
    /\ requests < MaxRequests
    /\ \E id \in DOMAIN transactions :
          LET doc == transactions[id]
          IN /\ IF doc.invoice # Omitted /\ doc.type = "Payment" /\ doc.status = "Completed"
                THEN LET totalPaid ==
                            SumAmounts(transactions,
                                       CompletedPayments(transactions, doc.invoice, id))
                         paymentStatus ==
                            DerivePaymentStatus(totalPaid, invoiceDocs[doc.invoice].total)
                     IN /\ SendStatus(doc.invoice, paymentStatus)
                        /\ totalSpent' = SpentAfterDelete(totalSpent,
                                                           invoiceDocs[doc.invoice],
                                                           paymentStatus)
                ELSE UNCHANGED <<invoiceDocs, sentStatus, totalSpent>>
             /\ transactions' = [i \in DOMAIN transactions \ {id} |-> transactions[i]]
    /\ requests' = requests + 1
    /\ UNCHANGED txPc
    /\ UNCHANGED <<ledgerVars, pageVars, genVars, bulkVars, batchVars, combVars,
                   tableVars, colorVars, sanVars, btnVars, styleVars, previewVars>>

TxNext == PostTransaction \/ PatchTransaction \/ DeleteTransaction

(***************************************************************************)
(*                           PDFDownloadButton                              *)
(***************************************************************************)

\* Bound of the exploration: the handleDownload invocations.
MaxClicks == 2

\* A callback prop: not passed, returning normally, or throwing.
CallbackKinds == {"none", "ok", "throws"}

BtnIdle ==
    /\ btnPc = "off"
    /\ props = [current |-> Null, disabled |-> FALSE, onGenerating |-> "none",
                onSuccess |-> "none", onError |-> "none"]
    /\ isGenerating = FALSE
    /\ rendered = FALSE
    /\ flights = <<>>
    /\ btnOptions = [filename |-> Omitted]

\* The button is mounted: `useState(false)` and the first render.
BtnInit ==
    /\ btnPc = "mounted"
    /\ props \in [current : Elements \cup {Null}, disabled : BOOLEAN,
                   onGenerating : CallbackKinds, onSuccess : CallbackKinds,
                   onError : CallbackKinds]
    /\ isGenerating = FALSE
    /\ rendered = FALSE
    /\ flights = <<>>
    /\ btnOptions \in [filename : {Omitted, "invoice.pdf"}]

\* `callback?.(arg)` appended to the calls made so far: nothing when the
\* prop was not passed.
CallProp(log, name, arg) ==
    IF props[name] = "none" THEN log
    ELSE Append(log, [name |-> name, arg |-> arg])

\* Whether `callback?.(arg)` throws
PropThrows(name) == props[name] = "throws"

\* How the awaited part of handleDownload ends: the import and
\* generateFromRef resolve to a result, or one of them rejects.
Settlements ==
    { [rejected |-> FALSE, result |-> Success("invoice.pdf", Undefined)],
      [rejected |-> FALSE, result |-> Success(Undefined, Undefined)],
      [rejected |-> FALSE, result |-> Failure(RasterMessage)],
      [rejected |-> TRUE, result |-> Failure("Failed to fetch dynamically imported module")] }

\* `a || b`
OrElse(a, b) == IF a \in {Undefined, Omitted, ""} THEN b ELSE a

\* A re-render: the new handleDownload sees the state as it is now.
Render ==
    /\ btnPc = "mounted"
    /\ rendered # isGenerating
    /\ rendered' = isGenerating
    /\ UNCHANGED <<btnPc, props, isGenerating, flights, btnOptions>>
    /\ UNCHANGED <<ledgerVars, pageVars, genVars, bulkVars, batchVars, combVars,
                   tableVars, colorVars, sanVars,
                   styleVars, previewVars, txVars>>

\* A click on the button as last rendered (`disabled={disabled ||
\* isGenerating}`) runs handleDownload up to its first await: the guard,
\* setIsGenerating(true), onGenerating?.(true).
Click ==
    /\ btnPc = "mounted"
    /\ Len(flights) < MaxClicks
    /\ ~(props.disabled \/ rendered)
    /\ IF props.current = Null \/ rendered \/ props.disabled
       THEN /\ flights' = Append(flights, [pc |-> "returned", log |-> <<>>])
            /\ UNCHANGED isGenerating
       ELSE /\ isGenerating' = TRUE
            /\ flights' = Append(flights,
                   [pc |-> IF PropThrows("onGenerating") THEN "thrown" ELSE "awaiting",
                    log |-> CallProp(<<>>, "onGenerating", "true")])
    /\ UNCHANGED <<btnPc, props, rendered, btnOptions>>
    /\ UNCHANGED <<ledgerVars, pageVars, genVars, bulkVars, batchVars, combVars,
                   tableVars, colorVars, sanVars,
                   styleVars, previewVars, txVars>>

\* The try and catch blocks of handleDownload from the moment the awaited
\* part has ended: the calls made, and whether an exception is on its way
\* out of the catch block.
Deliver(log, settlement) ==
    LET filename == OrElse(settlement.result.filename,
                           OrElse(btnOptions.filename, DefaultFilename))
        message == OrElse(settlement.result.error, "Failed to generate PDF")
        tried == IF settlement.rejected THEN log
                 ELSE IF settlement.result.success
                 THEN CallProp(log, "onSuccess", filename)
                 ELSE CallProp(log, "onError", message)
        caught == \/ settlement.rejected
                  \/ settlement.result.success /\ PropThrows("onSuccess")
                  \/ ~settlement.result.success /\ PropThrows("onError")
        thrownMessage == IF settlement.rejected THEN settlement.result.error
                         ELSE "<message of the error the callback threw>"
    IN IF caught
       THEN [log |-> CallProp(tried, "onError", thrownMessage),
             throwing |-> PropThrows("onError")]
       ELSE [log |-> tried, throwing |-> FALSE]

\* The awaited part of invocation k ends and handleDownload runs to its
\* end: try or catch, then finally with setIsGenerating(false) and
\* onGenerating?.(false).
Settle ==
    /\ btnPc = "mounted"
    /\ \E k \in DOMAIN flights, settlement \in Settlements :
           /\ flights[k].pc = "awaiting"
           /\ LET delivered == Deliver(flights[k].log, settlement)
              IN flights' = [flights EXCEPT ![k] =
                     [pc |-> IF delivered.throwing \/ PropThrows("onGenerating")
                             THEN "thrown" ELSE "done",
                      log |-> CallProp(delivered.log, "onGenerating", "false")]]
    /\ isGenerating' = FALSE
    /\ UNCHANGED <<btnPc, props, rendered, btnOptions>>
    /\ UNCHANGED <<ledgerVars, pageVars, genVars, bulkVars, batchVars, combVars,
                   tableVars, colorVars, sanVars,
                   styleVars, previewVars, txVars>>

BtnNext == Render \/ Click \/ Settle

(***************************************************************************)
(*                          The specifications                              *)
(***************************************************************************)

LedgerNext == RecordDownload \/ GetStatisticsCall \/ ClearHistory

InitLedger ==
    /\ LedgerInit /\ PageIdle /\ GenIdle /\ BulkIdle /\ BatchIdle
    /\ CombIdle /\ TableIdle /\ ColorIdle /\ SanIdle /\ BtnIdle
    /\ StyleIdle /\ PreviewIdle /\ TxIdle

SpecLedger == InitLedger /\ [][LedgerNext]_vars

InitPaginate ==
    /\ LedgerInit /\ PageInit /\ GenIdle /\ BulkIdle /\ BatchIdle
    /\ CombIdle /\ TableIdle /\ ColorIdle /\ SanIdle /\ BtnIdle
    /\ StyleIdle /\ PreviewIdle /\ TxIdle

SpecPaginate == InitPaginate /\ [][PageNext]_vars

InitGen ==
    /\ LedgerInit /\ PageIdle /\ GenIdle /\ BulkIdle /\ BatchIdle
    /\ CombIdle /\ TableIdle /\ ColorIdle /\ SanIdle /\ BtnIdle
    /\ StyleIdle /\ PreviewIdle /\ TxIdle

SpecGen == InitGen /\ [][GenNext]_vars

InitBulk ==
    /\ LedgerInit /\ PageIdle /\ GenIdle /\ BulkInit /\ BatchIdle
    /\ CombIdle /\ TableIdle /\ ColorIdle /\ SanIdle /\ BtnIdle
    /\ StyleIdle /\ PreviewIdle /\ TxIdle

SpecBulk == InitBulk /\ [][BulkNext]_vars

InitBatch ==
    /\ LedgerInit /\ PageIdle /\ GenIdle /\ BulkIdle /\ BatchInit
    /\ CombIdle /\ TableIdle /\ ColorIdle /\ SanIdle /\ BtnIdle
    /\ StyleIdle /\ PreviewIdle /\ TxIdle

SpecBatch == InitBatch /\ [][BatchNext]_vars

InitCombined ==
    /\ LedgerInit /\ PageIdle /\ GenIdle /\ BulkIdle /\ BatchIdle
    /\ CombInit /\ TableIdle /\ ColorIdle /\ SanIdle /\ BtnIdle
    /\ StyleIdle /\ PreviewIdle /\ TxIdle

SpecCombined == InitCombined /\ [][CombNext]_vars

InitColor ==
    /\ LedgerInit /\ PageIdle /\ GenIdle /\ BulkIdle /\ BatchIdle
    /\ CombIdle /\ TableIdle /\ ColorInit /\ SanIdle /\ BtnIdle
    /\ StyleIdle /\ PreviewIdle /\ TxIdle

SpecColor == InitColor /\ [][ColorNext]_vars

InitTable ==
    /\ LedgerInit /\ PageIdle /\ GenIdle /\ BulkIdle /\ BatchIdle
    /\ CombIdle /\ TableInit /\ ColorIdle /\ SanIdle /\ BtnIdle
    /\ StyleIdle /\ PreviewIdle /\ TxIdle

SpecTable == InitTable /\ [][TableNext]_vars

InitButton ==
    /\ LedgerInit /\ PageIdle /\ GenIdle /\ BulkIdle /\ BatchIdle
    /\ CombIdle /\ TableIdle /\ ColorIdle /\ SanIdle /\ BtnInit
    /\ StyleIdle /\ PreviewIdle /\ TxIdle

SpecButton == InitButton /\ [][BtnNext]_vars

InitStyle ==
    /\ LedgerInit /\ PageIdle /\ GenIdle /\ BulkIdle /\ BatchIdle
    /\ CombIdle /\ TableIdle /\ ColorIdle /\ SanIdle /\ BtnIdle
    /\ StyleInit /\ PreviewIdle /\ TxIdle

SpecStyle == InitStyle /\ [][StyleNext]_vars

InitPreview ==
    /\ LedgerInit /\ PageIdle /\ GenIdle /\ BulkIdle /\ BatchIdle
    /\ CombIdle /\ TableIdle /\ ColorIdle /\ SanIdle /\ BtnIdle
    /\ StyleIdle /\ PreviewInit /\ TxIdle

SpecPreview == InitPreview /\ [][PreviewNext]_vars

InitTransactions ==
    /\ LedgerInit /\ PageIdle /\ GenIdle /\ BulkIdle /\ BatchIdle
    /\ CombIdle /\ TableIdle /\ ColorIdle /\ SanIdle /\ BtnIdle
    /\ StyleIdle /\ PreviewIdle /\ TxInit

SpecTransactions == InitTransactions /\ [][TxNext]_vars

InitSanitize ==
    /\ LedgerInit /\ PageIdle /\ GenIdle /\ BulkIdle /\ BatchIdle
    /\ CombIdle /\ TableIdle /\ ColorIdle /\ SanInit /\ BtnIdle
    /\ StyleIdle /\ PreviewIdle /\ TxIdle

SpecSanitize == InitSanitize /\ [][SanNext]_vars

(***************************************************************************)
(*                              The claims                                  *)
(***************************************************************************)

\* C1: in every state reachable by recordDownload, getStatistics and
\* clearHistory calls the download-history buffer holds at most 100 entries.
C1_BufferAtMost100 == Len(downloadHistory) <= MaxHistory

\* The buffer is full and a further entry has been recorded.
C1_Witness == Len(recorded) > MaxHistory /\ Len(downloadHistory) = MaxHistory

\* C2: after n recordDownload calls since the last clearHistory the buffer is
\* exactly the last min(n, 100) recorded entries in insertion order, and a
\* getStatistics call then reports totalDownloads = min(n, 100): the n - 100
\* oldest entries are gone.
C2_LastEntriesKept ==
    LET n == Len(recorded)
        kept == Min(n, MaxHistory)
    IN /\ Len(downloadHistory) = kept
       /\ \A i \in 1..kept : downloadHistory[i] = recorded[n - kept + i]
       /\ stats # <<>> => stats[1].totalDownloads = kept

\* More than 100 entries were recorded, one of them unlike the others, and
\* the statistics were read.
C2_Witness ==
    /\ Len(recorded) > MaxHistory
    /\ varied > 0
    /\ stats # <<>>
    /\ stats[1].totalDownloads = MaxHistory
    /\ downloadHistory[1] = recorded[Len(recorded) - MaxHistory + 1]
    /\ downloadHistory[1] # recorded[1]

\* The entries of s, counted: how often e occurs in s.
Occurrences(s, e) == Cardinality({i \in DOMAIN s : s[i] = e})

\* C3: recentDownloads has length min(10, number of entries), holds exactly
\* the most recently recorded entries, and its timestamps never increase
\* along the list.
C3_RecentNewestFirst ==
    stats # <<>> =>
        LET recent == stats[1].recentDownloads
            newest == SliceLast(downloadHistory, RecentCount)
        IN /\ Len(recent) = Min(RecentCount, Len(downloadHistory))
           /\ \A i \in DOMAIN newest :
                  Occurrences(recent, newest[i]) = Occurrences(newest, newest[i])
           /\ \A i \in DOMAIN recent : \E j \in DOMAIN newest : recent[i] = newest[j]
           /\ \A i \in 1..(Len(recent) - 1) :
                  recent[i].timestamp >= recent[i + 1].timestamp

\* The statistics were read from a buffer of more than 10 entries whose last
\* ten include two of the same millisecond.
C3_Witness ==
    /\ stats # <<>>
    /\ Len(downloadHistory) > RecentCount
    /\ Len(stats[1].recentDownloads) = RecentCount
    /\ \E i \in 1..(RecentCount - 1) :
           /\ stats[1].recentDownloads[i].timestamp
                  = stats[1].recentDownloads[i + 1].timestamp
           /\ stats[1].recentDownloads[i] # stats[1].recentDownloads[i + 1]
    /\ stats[1].recentDownloads[1].timestamp
           > stats[1].recentDownloads[RecentCount].timestamp

\* ceil(a / b) for a >= 0 and b > 0
CeilDiv(a, b) == (a + b - 1) \div b

\* C5 (as claimed): createPDFFromCanvas returns a document of exactly
\* ceil(H / P) pages.
C5_PageCountIsCeil ==
    pagePc = "done" => Len(pages) = CeilDiv(imgHeight, pageHeight)

\* The rows of the source image that show on a page of height P when the
\* image of height H is drawn with its top at the vertical offset pos: the
\* page shows its own rows 0..P-1, and row y of the page is row y - pos of
\* the image.
VisibleBand(pos) ==
    {y \in 0..(imgHeight - 1) : y + pos >= 0 /\ y + pos < pageHeight}

\* C6: the k-th page draws the image at the offset -(k-1)*P, so that it shows
\* the band [(k-1)*P, min(k*P, H)); the bands of the pages are pairwise
\* disjoint, together they are [0, H), and only the last may be shorter than
\* P.
C6_BandsTileImage ==
    pagePc = "done" =>
        /\ \A k \in DOMAIN pages :
               /\ pages[k] = 0 - (k - 1) * pageHeight
               /\ VisibleBand(pages[k])
                      = {y \in 0..(imgHeight - 1) :
                            /\ y >= (k - 1) * pageHeight
                            /\ y < Min(k * pageHeight, imgHeight)}
               /\ k < Len(pages) => Cardinality(VisibleBand(pages[k])) = pageHeight
        /\ \A j, k \in DOMAIN pages :
               j # k => VisibleBand(pages[j]) \cap VisibleBand(pages[k]) = {}
        /\ UNION {VisibleBand(pages[k]) : k \in DOMAIN pages} = 0..(imgHeight - 1)

\* A document of three or more pages whose last band is a partial one.
C6_Witness ==
    /\ pagePc = "done"
    /\ Len(pages) >= 3
    /\ imgHeight % pageHeight # 0
    /\ Cardinality(VisibleBand(pages[Len(pages)])) \in 1..(pageHeight - 1)

\* C4 (as claimed): every generation that ends in success appends one entry
\* to the download ledger, so the ledger holds as many entries as
\* generations have succeeded (up to the cap of 100).
C4_LedgerCountsCompletions ==
    Len(downloadHistory) = Min(completions, MaxHistory)

\* C8 (as claimed): no entry point lets an exception escape; a call that has
\* finished has resolved to a result object, and a failed one carries its
\* error message.
C8_NoExceptionEscapes ==
    /\ escaped = <<>>
    /\ (genPc = "idle" /\ calls > 0) =>
           /\ result # <<>>
           /\ ~result[1].success => result[1].error # Undefined

\* C9 (as claimed): when generateFromElement or generateFromHTML (called
\* directly or through generateFromSelector or generateFromRef) has
\* returned, the wrappers attached to document.body are those attached
\* before the call.
C9_WrapperRemoved ==
    (genPc = "idle" /\ last # <<>>) => body = last[1].body

\* The call was made with a missing source: a ref whose current is null, or
\* a selector that matches no element.
MissingSource(c) ==
    \/ c.fn = "generateFromRef" /\ c.input = Null
    \/ /\ c.fn = "generateFromSelector"
       /\ ~QuerySelector(c.input).throws
       /\ QuerySelector(c.input).element = Null

\* C10: a call with a missing source has returned at once with a failed
\* result that says what is missing, and nothing else has happened: no node
\* was created or attached, nothing was rasterized and no file saved.
C10_MissingSourceFailsAtOnce ==
    (last # <<>> /\ MissingSource(last[1])) =>
        /\ genPc = "idle"
        /\ escaped = <<>>
        /\ result # <<>>
        /\ ~result[1].success
        /\ result[1].error = IF last[1].fn = "generateFromRef"
                             THEN RefNullMessage
                             ELSE SelectorMessage(last[1].input)
        /\ result[1].filename = Undefined
        /\ body = last[1].body
        /\ nextNode = last[1].nextNode
        /\ rasterCount = last[1].rasterCount
        /\ saved = last[1].saved

\* A selector that matches nothing was passed after a generation that saved
\* a file and one that left its mark on the document.
C10_Witness ==
    /\ last # <<>>
    /\ last[1].fn = "generateFromSelector"
    /\ MissingSource(last[1])
    /\ result # <<>>
    /\ ~result[1].success
    /\ saved # <<>>
    /\ rasterCount = 2

\* The invoice numbers of the items whose generation did not succeed, in the
\* order of the loop turns.
RECURSIVE FailedNumbers(_, _)
FailedNumbers(log, n) ==
    IF n = 0 THEN <<>>
    ELSE IF log[n].generated
    THEN FailedNumbers(log, n - 1)
    ELSE Append(FailedNumbers(log, n - 1), invoices[log[n].index].invoiceNumber)

\* The scenario of the claim: five items, the third with a null source, the
\* four others generated.
FiveWithThirdNull ==
    /\ Len(invoices) = 5
    /\ Len(bulkLog) = 5
    /\ invoices[3].element = Null
    /\ \A i \in {1, 2, 4, 5} : invoices[i].element # Null /\ bulkLog[i].generated

\* C7: processBulkInvoices takes every item in array order whatever happened
\* to the earlier ones, and returns processed + failed = n, success exactly
\* when nothing failed, and one error per failed item, naming its invoice
\* number; with five items of which only the third has a null source it
\* returns processed = 4, failed = 1, the one error for the third item, and
\* the fourth and fifth are generated.
C7_BulkCountsEveryItem ==
    bulkPc = "done" =>
        LET n == Len(invoices)
            failedNumbers == FailedNumbers(bulkLog, Len(bulkLog))
        IN /\ Len(bulkLog) = n
           /\ \A i \in 1..n : bulkLog[i].index = i
           /\ results.processed + results.failed = n
           /\ results.processed = Cardinality({i \in 1..n : bulkLog[i].generated})
           /\ results.success = (results.failed = 0)
           /\ Len(results.errors) = results.failed
           /\ [k \in 1..Len(results.errors) |-> results.errors[k].invoiceNumber]
                  = failedNumbers
           /\ FiveWithThirdNull =>
                  /\ results.processed = 4
                  /\ results.failed = 1
                  /\ ~results.success
                  /\ Len(results.errors) = 1
                  /\ results.errors[1].invoiceNumber = invoices[3].invoiceNumber
                  /\ results.errors[1].message = RefNullMessage
                  /\ \A i \in {4, 5} :
                         \E k \in DOMAIN saved : saved[k] = InvoiceFilename(invoices[i])

\* The scenario has run to its end.
C7_Witness ==
    /\ bulkPc = "done"
    /\ FiveWithThirdNull
    /\ results.processed = 4
    /\ results.failed = 1
    /\ Len(saved) = 4

\* C11 (as claimed): a batch entry point called with an empty item list
\* returns a failed result that carries a message, and names no artifact.
C11_EmptyBatchFails ==
    (batchPc = "done" /\ elements = <<>>) =>
        /\ ~batchResult[1].success
        /\ batchResult[1].error # Undefined
        /\ batchResult[1].filename = Undefined

\* C12 (as claimed): an entry-point call that has returned has produced one
\* result, and the result is never partially populated: a successful one
\* carries a defined file name and no error, a failed one carries an error
\* message and neither file name nor blob, whatever the options object holds
\* (a call that ends by throwing instead is the subject of C8).
C12_ResultNeverPartial ==
    (genPc = "idle" /\ calls > 0 /\ escaped = <<>>) =>
        /\ result # <<>>
        /\ IF result[1].success
           THEN /\ result[1].filename # Undefined
                /\ result[1].error = Undefined
           ELSE /\ result[1].error # Undefined
                /\ result[1].filename = Undefined
                /\ result[1].blob = Undefined

\* C13 (as claimed), for generateCombinedPDF: a successful result's file name
\* is options.filename when the options carry one and the default
\* "document.pdf" when they omit it, and the artifact was saved under that
\* name.
C13_FilenameRoundTrip ==
    (combPc = "done" /\ combResult[1].success) =>
        LET expected == IF combOptions.filename = Omitted
                        THEN DefaultFilename
                        ELSE combOptions.filename
        IN /\ combResult[1].filename = expected
           /\ saved # <<>>
           /\ saved[Len(saved)] = expected

\* C14 (as claimed): for an oklch value, on the resolved-color path
\* (convertToRGB) and the text paths (convertOklchToRgb): when the first
\* parameter parses to a lightness L with 0 <= L <= 1 the output is
\* rgb(g, g, g) with g the integer nearest to 255 * L (oklch(0.5 0.1 200)
\* gives rgb(128, 128, 128)); when L lies outside [0, 1] or the parameter
\* does not parse, the output is the mid-gray rgb(128, 128, 128).
C14_OklchGray ==
    (colorPc = "done" /\ colorIn.fn = "oklch") =>
        LET lightness == ParseFloat(colorIn.first)
        IN IF ~lightness.nan /\ 0 <= lightness.num /\ lightness.num <= lightness.den
           THEN \E g \in 0..255 :
                    /\ 2 * lightness.den * g <= 2 * 255 * lightness.num + lightness.den
                    /\ 2 * 255 * lightness.num + lightness.den < 2 * lightness.den * (g + 1)
                    /\ colorOut = Rgb(g)
           ELSE colorOut = MidGray

\* C15 (as claimed): an lch or lab value, and an oklch value whose first
\* parameter does not parse, is rewritten to the mid-gray rgb(128, 128, 128)
\* on every path, and nothing is added to the document on the way.
C15_FallbackIsMidGray ==
    (/\ colorPc = "done"
     /\ colorIn.fn \in {"lch", "lab"} \/ ParseFloat(colorIn.first).nan) =>
        /\ colorOut = MidGray
        /\ probes = 0

\* C16 (as claimed): when a step throws for a node, the sanitizing function
\* is not left by the exception (so the enclosing generation does not fail
\* because of it), and every other node of the subtree is still processed.
C16_BestEffortPerNode ==
    sanPc = "done" =>
        /\ ~sanThrown
        /\ \A j \in DOMAIN faults : faults[j] = "none" => j \in processed

\* C17 (as claimed): in a batch run an item's rasterization starts only
\* when every earlier item has its result and its offscreen clone is off the
\* document, so at every moment at most one wrapper the pipeline created is
\* attached to document.body.
C17_OneCloneAtATime ==
    /\ Cardinality(body) <= 1
    /\ genPc = "rasterizing" =>
           /\ Len(batchResults) = batchI - 1
           /\ body = {genCall[1].wrapper}

C19_CallbackSequence ==
    /\ \A k \in DOMAIN flights :
          flights[k].pc \in {"done", "thrown"} =>
             LET log == flights[k].log
                 IsOutcome(call) == call.name \in {"onSuccess", "onError"}
                 IsGenerating(call) == call.name = "onGenerating"
                 outcomes == SelectSeq(log, IsOutcome)
                 generating == SelectSeq(log, IsGenerating)
             IN /\ props.onGenerating # "none" =>
                      /\ generating = << [name |-> "onGenerating", arg |-> "true"],
                                         [name |-> "onGenerating", arg |-> "false"] >>
                      /\ Head(log) = generating[1]
                      /\ log[Len(log)] = generating[2]
                /\ Len(outcomes) <= 1
                /\ (props.onSuccess # "none" /\ props.onError # "none") =>
                      Len(outcomes) = 1
    /\ (\A k \in DOMAIN flights : flights[k].pc # "awaiting") => isGenerating = FALSE


\* C20: every html2canvas call made by a generation entry point passes
\* onclone (the sanitizer re-run on html2canvas's own clone) and
\* ignoreElements (script nodes and data-html2canvas-ignore nodes left out).
C20_EveryRasterSanitized ==
    \A i \in DOMAIN rasters : rasters[i].onclone /\ rasters[i].ignoreElements


\* C21: after preparePDFStyles has visited a node, the node carries no
\* inline custom property and none of backdrop-filter, filter, clip-path,
\* mask, mask-image, and a node that was fixed-positioned is absolute.
C21_NodeIsPrintFriendly ==
    stylePc = "done" =>
       /\ \A i \in DOMAIN inline :
             inline[i].name \notin CustomProperties \cup ProblematicProps
       /\ wasFixed => ComputedPosition(inline, sheetPosition) = "absolute"


\* The place of a page in the order cover, title 1, content 1, title 2, ...
PageRank(page) ==
    IF page[1].kind = "cover" THEN 0
    ELSE IF page[1].kind = "title" THEN 2 * page[1].doc
    ELSE 2 * page[1].doc + 1

\* The pages of the artifact that carry an operation of the kind for the document
PagesOf(kind, doc) ==
    {p \in DOMAIN combPages : combPages[p][1].kind = kind /\ combPages[p][1].doc = doc}

\* C22: a combined artifact of n >= 1 documents is the cover page if one
\* was requested, then per document in input order one title page and its
\* content pages; every page carries exactly one of these, so the page count
\* is cover + sum of (1 + c_i), the next document starts on a page of its
\* own and the last page is a content page of the last document.
C22_CombinedPageOrder ==
    (combPc = "done" /\ combResult # <<>> /\ combResult[1].success
        /\ Len(documents) >= 1) =>
       /\ \A p \in DOMAIN combPages : Len(combPages[p]) = 1
       /\ \A p, q \in DOMAIN combPages :
             p < q => PageRank(combPages[p]) <= PageRank(combPages[q])
       /\ Cardinality(PagesOf("cover", 0)) = (IF combOptions.coverPage THEN 1 ELSE 0)
       /\ \A i \in DOMAIN documents :
             /\ Cardinality(PagesOf("title", i)) = 1
             /\ PagesOf("image", i) # {}
       /\ Len(combPages) = Cardinality(PagesOf("cover", 0)) + Len(documents)
             + Cardinality(UNION {PagesOf("image", i) : i \in DOMAIN documents})
       /\ Len(combPages) \in PagesOf("image", Len(documents))

\* C22 witness: a finished artifact with a cover, two documents, the first
\* of them on more than one content page.
C22_Witness ==
    /\ combPc = "done" /\ combResult # <<>> /\ combResult[1].success
    /\ combOptions.coverPage
    /\ Len(documents) = 2
    /\ Cardinality(PagesOf("image", 1)) >= 2


\* The rows of a document's scaled image of the height that show on an a4
\* page when the image is drawn with its top at the vertical offset pos
DocBand(pos, height) ==
    {y \in 0..(height - 1) : y + pos >= 0 /\ y + pos < A4Height}

\* The offsets the image of document i is drawn at, one per content page
DocOffsets(i) == {combPages[p][1].position : p \in PagesOf("image", i)}

\* C23: the bands of a document's image that show on its content pages are
\* pairwise disjoint and together they are [0, imgHeight).
C23_CombinedBandsTile ==
    (combPc = "done" /\ combResult # <<>> /\ combResult[1].success) =>
       \A i \in DOMAIN documents :
          /\ \A a, b \in DocOffsets(i) :
                a # b => DocBand(a, documents[i].height)
                            \cap DocBand(b, documents[i].height) = {}
          /\ UNION {DocBand(a, documents[i].height) : a \in DocOffsets(i)}
                = 0..(documents[i].height - 1)


\* The cursor of the first row: 50 under a title, 30 without
FirstRowCursor == IF Truthy(MergeTitle(tableOptions.title)) THEN 50 ELSE 30

\* How many rows fit from the cursor on before it exceeds 280
RowsFrom(cursor) == (280 - cursor) \div 8 + 1

\* The page the i-th row belongs on, and its cursor there
RowPage(i) ==
    IF i <= RowsFrom(FirstRowCursor) THEN 1
    ELSE 2 + (i - RowsFrom(FirstRowCursor) - 1) \div RowsFrom(20)

RowCursor(i) ==
    IF i <= RowsFrom(FirstRowCursor) THEN FirstRowCursor + 8 * (i - 1)
    ELSE 20 + 8 * ((i - RowsFrom(FirstRowCursor) - 1) % RowsFrom(20))

\* The first row of page p
FirstRowOf(p) ==
    IF p = 1 THEN 1 ELSE RowsFrom(FirstRowCursor) + (p - 2) * RowsFrom(20) + 1

\* What is drawn on page p after the title and the header line
RowTexts(p) ==
    LET head == (IF Truthy(MergeTitle(tableOptions.title)) THEN 1 ELSE 0) + Len(headers)
    IN IF p = 1 THEN SubSeq(tablePages[1], head + 1, Len(tablePages[1]))
       ELSE tablePages[p]

\* C24: the rows drawn so far are on the pages in input order, each exactly
\* once, row i with its cells at x = 20 + 40*j in header order and at the
\* cursor, which starts at 50 under a title (30 without), advances by 8 and
\* restarts at 20 on a new page once it exceeds 280; no row is drawn above
\* 280.
C24_RowsAtCursor ==
    tablePc \in {"rows", "done"} =>
       /\ \A i \in 1..(tableI - 1) : RowPage(i) \in DOMAIN tablePages
       /\ \A p \in DOMAIN tablePages :
             /\ Len(RowTexts(p)) = Len(headers)
                   * Cardinality({i \in 1..(tableI - 1) : RowPage(i) = p})
             /\ \A m \in DOMAIN RowTexts(p) :
                   LET i == FirstRowOf(p) + (m - 1) \div Len(headers)
                       j == (m - 1) % Len(headers)
                   IN /\ RowTexts(p)[m] = [text |-> CellText(tableData[i][headers[j + 1]]),
                                           x |-> 20 + 40 * j,
                                           y |-> RowCursor(i)]
                      /\ RowTexts(p)[m].y <= 280

\* C24 witness: a titled table saved with rows on a second page.
C24_Witness ==
    /\ tablePc = "done"
    /\ tableResult # <<>> /\ tableResult[1].success
    /\ Truthy(MergeTitle(tableOptions.title))
    /\ Len(tablePages) >= 2
    /\ tablePages[2] # <<>>


\* C25: every header and row text of generateTablePDF is drawn within the
\* height of its page, in portrait and in landscape, and the saved artifact
\* does not end with an empty page.
C25_TableWithinPage ==
    tablePc \in {"rows", "done"} =>
       /\ \A p \in DOMAIN tablePages : \A m \in DOMAIN tablePages[p] :
             tablePages[p][m].y < TablePageHeight(tableOptions.orientation)
       /\ (tablePc = "done" /\ tableResult # <<>> /\ tableResult[1].success) =>
             tablePages[Len(tablePages)] # <<>>

\* C26: when the generation generatePreview awaited has succeeded,
\* previewUrl is a non-empty URL, and isLoading is false whenever no
\* generatePreview is under way.
C26_PreviewUrlSet ==
    previewPc = "open" =>
       /\ (lastPreview # <<>> /\ lastPreview[1].success) => previewUrl # ""
       /\ isLoading = FALSE

\* C27: at no time are two handleDownload invocations of a button awaiting
\* their generation.
C27_OneGenerationInFlight ==
    Cardinality({k \in DOMAIN flights : flights[k].pc = "awaiting"}) <= 1

\* The sum of the counts of a type breakdown
RECURSIVE SumCounts(_, _)
SumCounts(counts, types) ==
    IF types = {} THEN 0
    ELSE LET t == CHOOSE t \in types : TRUE
         IN counts[t] + SumCounts(counts, types \ {t})

\* The sum of the sizes of the entries from the i-th on
RECURSIVE SizesFrom(_, _)
SizesFrom(h, i) == IF i > Len(h) THEN 0 ELSE h[i].size + SizesFrom(h, i + 1)

PaidFor(invoice) ==
    SumAmounts(transactions, CompletedPayments(transactions, invoice, 0))

\* C29: between requests, the payment status last sent for an invoice is
\* the one derived from the stored Completed Payments of the invoice: Paid
\* if S >= total, Partial if 0 < S < total, Unpaid otherwise.
C29_StatusFollowsPayments ==
    \A invoice \in InvoiceIds :
       sentStatus[invoice] # "none" =>
          sentStatus[invoice] =
             (IF PaidFor(invoice) >= InvoiceTotal THEN "Paid"
              ELSE IF PaidFor(invoice) > 0 THEN "Partial"
              ELSE "Unpaid")

\* C30: between requests, the customer's totalSpent is the sum of the
\* totals of the invoices whose payment status, as last sent, is Paid.
C30_TotalSpentFollowsPaid ==
    totalSpent = InvoiceTotal
                   * Cardinality({invoice \in InvoiceIds : sentStatus[invoice] = "Paid"})

====
